---------------------------- MODULE Spec2Model ----------------------------
(***************************************************************************)
(* Model of aiida.storage.psql_dos.backend.PsqlDosBackend: maintenance of  *)
(* the object store against the database (maintain,                        *)
(* get_unreferenced_keyset), the staged backup (_backup, _backup_dos,      *)
(* _backup_auto_folders, backup) and the session transactions              *)
(* (transaction, in_transaction).                                          *)
(***************************************************************************)
EXTENDS Integers, Sequences, FiniteSets, TLC

(* ------------------------------ bounds --------------------------------- *)
\* number of distinct repository keys (content hashes) in the model
NumKeys == 2
\* number of backup runs that are told apart by their run number
MaxRuns == 2
\* number of distinct rows a transaction body may write
NumRows == 2
\* nesting depth of transaction() blocks
MaxDepth == 2
\* number of rows in one bulk_insert call
MaxBatch == 2
\* number of operations called on one backend instance
MaxOps == 3
\* number of schema versions above the first; the last one is the head
NumVersions == 2
\* number of distinct setting keys, and of values a setting may take
NumSettings == 2
NumVals == 2
\* number of log records in the table before the log-cleaning migration
NumLogs == 2

Keys == 1..NumKeys
Rows == 1..NumRows

\* the process of the backup, which also runs maintain(full=False)
BackupProc == "b"
\* processes that call maintain()
Maintainers == {"m1", "m2", BackupProc}

VARIABLES
    \* object store (disk-objectstore container) and database references
    loose, packed, dbrefs,
    \* profile access manager: exclusive lock holder, processes with access
    lockHolder, access,
    \* one maintain() call per maintainer process
    mpc, mfull, mdry, mrepo, mdb, mout,
    \* the dry runs of maintain() in a row with no write in between, the
    \* unreferenced keyset they computed, and the arguments of the
    \* repository.maintain call of a maintain() that has not yet returned
    mprev,
    \* a writer that stores a blob and then commits the record
    wpc, wkey,
    \* last direct call of get_unreferenced_keyset
    guk,
    \* one backup() call at a time: position, arguments, outcome
    bpc, bargs, bresult, bdone, bfailed,
    \* the folders at the backup destination, number of backup calls so far
    folders, runs,
    \* number of automatic backup calls in a row that returned True
    streak,
    \* the session: durable rows, rows as the session sees them, transactions
    committed, work, txs,
    \* the open transaction() blocks, an exception on its way out, last exit
    blocks, exc, tlast,
    \* whether the SQLAlchemy build refuses to begin a transaction inside a
    \* `with` statement whose own transaction is already closed
    strict,
    \* one bulk_insert call: its arguments, what it did to the row
    \* dictionaries, how it ended, and the rows of the table
    ins,
    \* one bulk_update call: its arguments, how it ended, and for each record
    \* of the table the columns that were changed
    upd,
    \* one PsqlDosBackend instance: whether it holds a session factory, how
    \* its construction went, what its operations did, the last operation
    be,
    \* the profile's storage: stored schema version, the version its tables
    \* conform to, the content of tables no migration touches, reachability
    prof,
    \* one migration call: position, target, the open transaction of a step
    mig,
    \* the tables the session reads and writes by query: nodes, links, group
    \* memberships, settings and log records
    db

storeVars == <<loose, packed, dbrefs>>
lockVars  == <<lockHolder, access>>
maintVars == <<mpc, mfull, mdry, mrepo, mdb, mout, mprev>>
writerVars == <<wpc, wkey>>

lifeVars == <<be, prof, mig, db>>

txnVars == <<committed, work, txs, blocks, exc, tlast, strict, ins, upd, be, prof, mig, db>>

backupVars == <<bpc, bargs, bresult, bdone, bfailed, folders, runs, streak>>

vars == <<loose, packed, dbrefs, lockHolder, access,
          mpc, mfull, mdry, mrepo, mdb, mout, mprev, wpc, wkey, guk,
          bpc, bargs, bresult, bdone, bfailed, folders, runs, streak,
          committed, work, txs, blocks, exc, tlast, strict, ins, upd, be, prof,
          mig, db>>

(* --------------------------- object store ------------------------------ *)
\* repository.list_objects(): every key of the container, loose or packed
list_objects == loose \cup packed

\* orm.Node.collection(self).iter_repo_keys(): keys referenced by records
iter_repo_keys == dbrefs

\* repository.delete_objects(keys): the loose part after the deletion
delete_objects_loose(keys) == loose \ keys

\* repository.delete_objects(keys): the packed part after the deletion
delete_objects_packed(keys) == packed \ keys

\* repository.maintain(live, dry_run): packs the loose objects; a dry run
\* changes nothing.  The key set of the container is never changed by it.
repository_maintain_loose(live, dry_run) == IF dry_run THEN loose ELSE {}

repository_maintain_packed(live, dry_run) ==
    IF dry_run THEN packed ELSE packed \cup loose

(* ----------------------- get_unreferenced_keyset ----------------------- *)
\* mutant: the consistency check is switched off
keyset_raises_unchecked(keyset_repository, keyset_database, check_consistency) ==
    FALSE

\* mutant: the difference is taken the wrong way round
keyset_raises_reversed(keyset_repository, keyset_database, check_consistency) ==
    LET keyset_missing == keyset_repository \ keyset_database
    IN  check_consistency /\ Cardinality(keyset_missing) > 0

\* lines 415-420: raise when a referenced key is not in the repository
keyset_raises(keyset_repository, keyset_database, check_consistency) ==
    LET keyset_missing == keyset_database \ keyset_repository
    IN  check_consistency /\ Cardinality(keyset_missing) > 0

\* mutant: the referenced keys are not subtracted
keyset_result_all(keyset_repository, keyset_database) == keyset_repository

\* line 422: the returned set
keyset_result(keyset_repository, keyset_database) ==
    keyset_repository \ keyset_database

NoCall == [called |-> FALSE, check |-> FALSE, repo |-> {}, db |-> {},
           raised |-> FALSE, value |-> {}]

\* a direct call get_unreferenced_keyset(check_consistency)
get_unreferenced_keyset(check_consistency) ==
    /\ \A m \in Maintainers : mpc[m] = "idle"
    /\ LET keyset_repository == list_objects
           keyset_database == iter_repo_keys
           raised == keyset_raises(keyset_repository, keyset_database,
                                   check_consistency)
       IN  guk' = [called |-> TRUE, check |-> check_consistency,
                   repo |-> keyset_repository, db |-> keyset_database,
                   raised |-> raised,
                   value |-> IF raised THEN {}
                             ELSE keyset_result(keyset_repository,
                                                keyset_database)]
    /\ UNCHANGED <<storeVars, lockVars, maintVars, writerVars, backupVars,
                   txnVars>>

(* ----------------------- profile access manager ------------------------ *)
\* ProfileAccessManager.lock(): exclusive; refused while another process
\* holds the lock or has access to the profile
CanLock(p) == lockHolder = "none" /\ access \ {p} = {}

\* ProfileAccessManager.request_access(): refused while the profile is locked
CanAccess(p) == lockHolder = "none"

(* ------------------------------ maintain ------------------------------- *)
\* mutant: the maintenance context is always the null context
maintenance_context_null(full) == "nullcontext"

\* lines 380-383: the context manager maintain() runs its body in
maintenance_context(full) == IF full THEN "lock" ELSE "nullcontext"

\* line 385, entering the context: full maintenance takes the profile lock
\* and fails with a locked-profile error when it cannot
M_Enter(m, full, dry_run) ==
    /\ mpc[m] = "idle"
    /\ UNCHANGED <<mrepo, mdb, mprev>>
    /\ IF maintenance_context(full) = "lock" /\ ~CanLock(m)
       THEN /\ mout' = [mout EXCEPT ![m] = "locked"]
            /\ UNCHANGED <<lockHolder, mpc, mfull, mdry>>
       ELSE /\ lockHolder' = IF maintenance_context(full) = "lock"
                             THEN m ELSE lockHolder
            /\ mpc' = [mpc EXCEPT ![m] = "list_repo"]
            /\ mout' = [mout EXCEPT ![m] = "running"]
            /\ mfull' = [mfull EXCEPT ![m] = full]
            /\ mdry' = [mdry EXCEPT ![m] = dry_run]
    /\ UNCHANGED <<storeVars, access, writerVars>>
    /\ guk' = NoCall
    /\ UNCHANGED <<backupVars, txnVars>>

\* line 412: keyset_repository = set(repository.list_objects())
M_ListRepo(m) ==
    /\ mpc[m] = "list_repo"
    /\ mrepo' = [mrepo EXCEPT ![m] = list_objects]
    /\ mpc' = [mpc EXCEPT ![m] = "list_db"]
    /\ UNCHANGED <<storeVars, lockVars, mfull, mdry, mdb, mout, mprev,
                   writerVars>>
    /\ guk' = NoCall
    /\ UNCHANGED <<backupVars, txnVars>>

\* line 413: keyset_database = set(...iter_repo_keys())
M_ListDb(m) ==
    /\ mpc[m] = "list_db"
    /\ mdb' = [mdb EXCEPT ![m] = iter_repo_keys]
    /\ mpc' = [mpc EXCEPT ![m] = "check"]
    /\ UNCHANGED <<storeVars, lockVars, mfull, mdry, mrepo, mout, mprev,
                   writerVars>>
    /\ guk' = NoCall
    /\ UNCHANGED <<backupVars, txnVars>>

\* line 386: the set maintain() hands to repository.delete_objects
unreferenced_objects(m) == keyset_result(mrepo[m], mdb[m])

NoRm == [called |-> FALSE, live |-> FALSE, dry_run |-> FALSE]

NoPrev == [streak |-> 0, keyset |-> {}, rm |-> NoRm]

\* a maintain() call has computed its unreferenced keyset: one more dry run
\* in a row, or the end of the row
computed(prev, dry_run, keyset) ==
    IF dry_run
    THEN [streak |-> IF prev.streak = 0 THEN 1 ELSE 2, keyset |-> keyset,
          rm |-> prev.rm]
    ELSE [NoPrev EXCEPT !.rm = prev.rm]

\* lines 415-422 with the default check_consistency=True; the RuntimeError
\* leaves the context manager, which releases the lock
M_Check(m) ==
    /\ mpc[m] = "check"
    /\ IF keyset_raises(mrepo[m], mdb[m], TRUE)
       THEN /\ mpc' = [mpc EXCEPT ![m] = "idle"]
            /\ mout' = [mout EXCEPT ![m] = "inconsistent"]
            /\ lockHolder' = IF lockHolder = m THEN "none" ELSE lockHolder
            /\ mfull' = [mfull EXCEPT ![m] = FALSE]
            /\ mdry' = [mdry EXCEPT ![m] = FALSE]
            /\ mrepo' = [mrepo EXCEPT ![m] = {}]
            /\ mdb' = [mdb EXCEPT ![m] = {}]
            /\ mprev' = NoPrev
       ELSE /\ mpc' = [mpc EXCEPT ![m] = "delete"]
            /\ mprev' = computed(mprev, mdry[m], unreferenced_objects(m))
            /\ UNCHANGED <<mout, lockHolder, mfull, mdry, mrepo, mdb>>
    /\ UNCHANGED <<storeVars, access, writerVars>>
    /\ guk' = NoCall
    /\ UNCHANGED <<backupVars, txnVars>>

\* mutant: the objects are deleted in a dry run too
M_Delete_ignores_dry_run(m) ==
    /\ mpc[m] = "delete"
    /\ loose' = delete_objects_loose(unreferenced_objects(m))
    /\ packed' = delete_objects_packed(unreferenced_objects(m))
    /\ mpc' = [mpc EXCEPT ![m] = "repo_maintain"]
    /\ UNCHANGED <<dbrefs, lockVars, mfull, mdry, mrepo, mdb, mout, mprev,
                   writerVars>>
    /\ guk' = NoCall
    /\ UNCHANGED <<backupVars, txnVars>>

\* lines 387-389: delete the unreferenced objects unless dry_run
M_Delete(m) ==
    /\ mpc[m] = "delete"
    /\ IF mdry[m]
       THEN UNCHANGED <<loose, packed>>
       ELSE /\ loose' = delete_objects_loose(unreferenced_objects(m))
            /\ packed' = delete_objects_packed(unreferenced_objects(m))
    /\ mpc' = [mpc EXCEPT ![m] = "repo_maintain"]
    /\ UNCHANGED <<dbrefs, lockVars, mfull, mdry, mrepo, mdb, mout, mprev,
                   writerVars>>
    /\ guk' = NoCall
    /\ UNCHANGED <<backupVars, txnVars>>

\* mutant: the object store is always maintained in live mode
maintain_live_always(full) == TRUE

\* line 392: live=not full
maintain_live(full) == ~full

\* line 392: repository.maintain(live=not full, dry_run=dry_run)
M_RepoMaintain(m) ==
    /\ mpc[m] = "repo_maintain"
    /\ loose' = repository_maintain_loose(maintain_live(mfull[m]), mdry[m])
    /\ packed' = repository_maintain_packed(maintain_live(mfull[m]), mdry[m])
    /\ mprev' = [mprev EXCEPT !.rm = [called |-> TRUE,
                                      live |-> maintain_live(mfull[m]),
                                      dry_run |-> mdry[m]]]
    /\ mpc' = [mpc EXCEPT ![m] = "exit"]
    /\ UNCHANGED <<dbrefs, lockVars, mfull, mdry, mrepo, mdb, mout,
                   writerVars>>
    /\ guk' = NoCall
    /\ UNCHANGED <<backupVars, txnVars>>

\* the exception of a failed step leaves the context of line 385, which
\* releases the lock, and then maintain()
M_Raise(m, outcome) ==
    /\ lockHolder' = IF lockHolder = m THEN "none" ELSE lockHolder
    /\ mpc' = [mpc EXCEPT ![m] = "idle"]
    /\ mout' = [mout EXCEPT ![m] = outcome]
    /\ mfull' = [mfull EXCEPT ![m] = FALSE]
    /\ mdry' = [mdry EXCEPT ![m] = FALSE]
    /\ mrepo' = [mrepo EXCEPT ![m] = {}]
    /\ mdb' = [mdb EXCEPT ![m] = {}]
    /\ UNCHANGED <<storeVars, access, writerVars, mprev>>
    /\ guk' = NoCall
    /\ UNCHANGED <<backupVars, txnVars>>

\* line 389: repository.delete_objects raises; nothing is deleted
M_DeleteFails(m) ==
    /\ mpc[m] = "delete"
    /\ ~mdry[m]
    /\ M_Raise(m, "delete_failed")

\* line 392: repository.maintain raises; the container is as it was
M_RepoMaintainFails(m) ==
    /\ mpc[m] = "repo_maintain"
    /\ M_Raise(m, "maintain_failed")

\* leaving the context of line 385: the lock is released, maintain returns
M_Exit(m) ==
    /\ mpc[m] = "exit"
    /\ lockHolder' = IF lockHolder = m THEN "none" ELSE lockHolder
    /\ mpc' = [mpc EXCEPT ![m] = "idle"]
    /\ mout' = [mout EXCEPT ![m] = "ok"]
    /\ mfull' = [mfull EXCEPT ![m] = FALSE]
    /\ mdry' = [mdry EXCEPT ![m] = FALSE]
    /\ mrepo' = [mrepo EXCEPT ![m] = {}]
    /\ mdb' = [mdb EXCEPT ![m] = {}]
    /\ mprev' = [mprev EXCEPT !.rm = NoRm]
    /\ UNCHANGED <<storeVars, access, writerVars>>
    /\ guk' = NoCall
    /\ UNCHANGED <<backupVars, txnVars>>

M_Step(m) ==
    \/ M_ListRepo(m)
    \/ M_ListDb(m)
    \/ M_Check(m)
    \/ M_Delete(m)
    \/ M_RepoMaintain(m)
    \/ M_Exit(m)

(* ------------------------------- writers ------------------------------- *)
\* normal use: the blob of a new node is stored in the object store ...
W_StoreBlob(k) ==
    /\ wpc = "idle"
    /\ loose' = IF k \in list_objects THEN loose ELSE loose \cup {k}
    /\ wkey' = k
    /\ wpc' = "stored"
    /\ guk' = NoCall
    /\ UNCHANGED <<backupVars, txnVars>>
    /\ mprev' = [NoPrev EXCEPT !.rm = mprev.rm]
    /\ UNCHANGED <<packed, dbrefs, lockVars, mpc, mfull, mdry, mrepo, mdb, mout>>

\* ... and then the record that references it is committed
W_Commit ==
    /\ wpc = "stored"
    /\ dbrefs' = dbrefs \cup {wkey}
    /\ wpc' = "idle"
    /\ wkey' = 1
    /\ guk' = NoCall
    /\ UNCHANGED <<backupVars, txnVars>>
    /\ mprev' = [NoPrev EXCEPT !.rm = mprev.rm]
    /\ UNCHANGED <<loose, packed, lockVars, mpc, mfull, mdry, mrepo, mdb, mout>>

\* a record is deleted: its key stays in the store, now unreferenced
W_DeleteRecord(k) ==
    /\ wpc = "idle"
    /\ k \in dbrefs
    /\ dbrefs' = dbrefs \ {k}
    /\ guk' = NoCall
    /\ UNCHANGED <<backupVars, txnVars>>
    /\ mprev' = [NoPrev EXCEPT !.rm = mprev.rm]
    /\ UNCHANGED <<loose, packed, wpc, wkey, lockVars, mpc, mfull, mdry, mrepo,
                   mdb, mout>>

(* ------------------------------- backup -------------------------------- *)
\* lines 684-685: the folders of the automatic mode, `<final>-old` of line
\* 698, and a destination given by the caller
\* mutant: the running backup is written straight into last-backup
live_folder_is_final == "last-backup"

live_folder == "live_backup"
final_folder == "last-backup"
old_folder == "last-backup-old"
Folders == {live_folder, final_folder, old_folder, "X"}

\* what a backup run puts into its destination, in the names of the code:
\* db.psql, container/loose, container/packs.idx, container/packs, the rest
\* of the container, config.json and the COMPLETED_<timestamp> marker;
\* "moved-in" is a folder that `mv` placed inside an existing folder
NoArgs == [mode |-> "none", dest |-> "none", prev |-> "none", remote |-> FALSE]

NoFolder == [exists |-> FALSE, arts |-> {}, run |-> 0]

HasMarker(f) == folders[f].exists /\ "COMPLETED" \in folders[f].arts

\* backup_utils.check_path_exists
check_path_exists(f) == folders[f].exists

\* backup_utils.check_path_is_empty_folder
check_path_is_empty_folder(f) == folders[f].exists /\ folders[f].arts = {}

\* backup_utils.call_rsync: on success the source is at the destination
call_rsync(dest, art) ==
    [folders EXCEPT ![dest].arts = @ \cup {art}]

\* mutant: the source is gone and nothing arrives at the destination
run_mv_drop(src, dst) == [folders EXCEPT ![src] = NoFolder]

\* `mv src dst`: a rename, or a move into dst when dst is an existing folder
run_mv(src, dst) ==
    IF folders[dst].exists
    THEN [folders EXCEPT ![dst].arts = @ \cup {"moved-in"}, ![src] = NoFolder]
    ELSE [folders EXCEPT ![dst] = folders[src], ![src] = NoFolder]

\* mutant: step 3 removes last-backup instead of last-backup-old
run_rm_final(f) == [folders EXCEPT ![final_folder] = NoFolder]

\* mutant: step 3 removes nothing
run_rm_nothing(f) == folders

\* `rm -rf f`
run_rm(f) == [folders EXCEPT ![f] = NoFolder]

\* mutant: a failed stage does not end the run
after_stage_continue(success, next) == next

\* the `if not success: return False` after a stage of _backup
after_stage(success, next) == IF success THEN next ELSE "idle"

\* mutant: _backup does not look at the result of _backup_dos
after_dos_stage_ignored(success, next) == IF success THEN next ELSE "config"

\* the `if not success: return False` after a stage of _backup_dos, and
\* lines 640-641 that pass it on
after_dos_stage(success, next) == IF success THEN next ELSE "idle"

\* the run goes on at `pcnext`, or ends there with "idle": a stage that
\* succeeded is noted in bdone, one that failed in bfailed; when the call
\* returns its arguments are gone and bresult holds what it returned
Proceed(stage, success, pcnext) ==
    /\ bpc' = pcnext
    /\ bdone' = IF pcnext = "idle" THEN {}
                ELSE IF success THEN bdone \cup {stage} ELSE bdone
    /\ bargs' = IF pcnext = "idle" THEN NoArgs ELSE bargs
    /\ bfailed' = IF success THEN bfailed ELSE stage
    /\ bresult' = IF ~success THEN "false"
                  ELSE IF pcnext = "idle" THEN "true" ELSE bresult
    /\ streak' = IF pcnext # "idle" THEN streak
                 ELSE IF success /\ bargs.mode = "auto" THEN streak + 1 ELSE 0

Stage(stage, success, next) == Proceed(stage, success, after_stage(success, next))

DosStage(stage, success, next) ==
    Proceed(stage, success, after_dos_stage(success, next))

\* an exception leaves _backup at `stage`
Raise(stage) ==
    /\ bpc' = "idle"
    /\ bdone' = {}
    /\ bargs' = NoArgs
    /\ bfailed' = stage
    /\ bresult' = "raised"
    /\ streak' = 0

\* lines 557 and 565: the first stage of _backup
first_stage(remote) == IF remote THEN "remote" ELSE "tools"

\* lines 745-746: backup(path, remote, prev_backup) with a prev_backup
B_CallExplicit(path, prev_backup, remote) ==
    /\ bpc = "idle"
    /\ runs < MaxRuns
    /\ runs' = runs + 1
    /\ bargs' = [mode |-> "explicit", dest |-> path, prev |-> prev_backup,
                 remote |-> remote]
    /\ bpc' = first_stage(remote)
    /\ bresult' = "none"
    /\ bdone' = {}
    /\ bfailed' = "none"
    /\ UNCHANGED <<folders, streak, storeVars, lockVars, maintVars, writerVars,
                   guk, txnVars>>

\* lines 747-748 and 684-690: backup(path, remote) without prev_backup; the
\* previous backup is last-backup when that path exists
B_CallAuto(remote) ==
    /\ bpc = "idle"
    /\ runs < MaxRuns
    /\ runs' = runs + 1
    /\ bargs' = [mode |-> "auto", dest |-> live_folder,
                 prev |-> IF check_path_exists(final_folder)
                          THEN final_folder ELSE "none",
                 remote |-> remote]
    /\ bpc' = first_stage(remote)
    /\ bresult' = "none"
    /\ bdone' = {}
    /\ bfailed' = "none"
    /\ UNCHANGED <<folders, streak, storeVars, lockVars, maintVars, writerVars,
                   guk, txnVars>>

\* the same call made once more after a run that did not return True, when
\* the run numbers are used up: it goes by the last run number
B_CallAutoAgain(remote) ==
    /\ bpc = "idle"
    /\ runs = MaxRuns
    /\ bresult # "true"
    /\ bargs' = [mode |-> "auto", dest |-> live_folder,
                 prev |-> IF check_path_exists(final_folder)
                          THEN final_folder ELSE "none",
                 remote |-> remote]
    /\ bpc' = first_stage(remote)
    /\ bresult' = "none"
    /\ bdone' = {}
    /\ bfailed' = "none"
    /\ UNCHANGED <<runs, folders, streak, storeVars, lockVars, maintVars,
                   writerVars, guk, txnVars>>

\* line 688: prev_exists
prev_exists == bargs.mode = "auto" /\ bargs.prev # "none"

\* lines 557-563: the remote host must be reachable
B_Remote(success) ==
    /\ bpc = "remote"
    /\ Stage("remote", success, "tools")
    /\ UNCHANGED <<folders, runs, storeVars, lockVars, maintVars,
                   writerVars, guk, txnVars>>

\* mutant: the destination is created before the executables are looked up
B_Tools_after_mkdir(success) ==
    /\ bpc = "tools"
    /\ Stage("tools", success, "dest")
    /\ folders' = IF check_path_exists(bargs.dest) THEN folders
                  ELSE [folders EXCEPT ![bargs.dest] =
                          [exists |-> TRUE, arts |-> {}, run |-> runs]]
    /\ UNCHANGED <<runs, storeVars, lockVars, maintVars, writerVars,
                   guk, txnVars>>

\* lines 565-572: pg_dump and rsync must be found
B_Tools(success) ==
    /\ bpc = "tools"
    /\ Stage("tools", success, "dest")
    /\ UNCHANGED <<folders, runs, storeVars, lockVars, maintVars,
                   writerVars, guk, txnVars>>

\* mutant: an existing destination is used whatever it holds
B_Dest_unchecked(mkdir_success) ==
    /\ bpc = "dest"
    /\ IF check_path_exists(bargs.dest)
       THEN /\ Stage("dest", TRUE, "access")
            /\ folders' = folders
       ELSE /\ Stage("dest", mkdir_success, "access")
            /\ folders' = IF mkdir_success
                          THEN [folders EXCEPT ![bargs.dest] =
                                  [exists |-> TRUE, arts |-> {}, run |-> runs]]
                          ELSE folders
    /\ UNCHANGED <<runs, storeVars, lockVars, maintVars, writerVars,
                   guk, txnVars>>

\* lines 579-590: the destination is an empty folder, or is created now
B_Dest(mkdir_success) ==
    /\ bpc = "dest"
    /\ IF check_path_exists(bargs.dest)
       THEN /\ Stage("dest", check_path_is_empty_folder(bargs.dest), "access")
            /\ folders' = folders
       ELSE /\ Stage("dest", mkdir_success, "access")
            /\ folders' = IF mkdir_success
                          THEN [folders EXCEPT ![bargs.dest] =
                                  [exists |-> TRUE, arts |-> {}, run |-> runs]]
                          ELSE folders
    /\ UNCHANGED <<runs, storeVars, lockVars, maintVars, writerVars,
                   guk, txnVars>>

\* mutant: the backup goes on without access to the profile
request_access_skipped(p) == access

\* line 595: the access record of the process
request_access(p) == access \cup {p}

\* lines 592-598: request access to the profile; a locked profile ends the run
B_Access ==
    /\ bpc = "access"
    /\ Stage("access", CanAccess(BackupProc), "maintain")
    /\ access' = IF CanAccess(BackupProc)
                 THEN request_access(BackupProc) ELSE access
    /\ UNCHANGED <<folders, runs, storeVars, lockHolder, maintVars,
                   writerVars, guk, txnVars>>

\* line 601: self.maintain(full=False, compress=True) begins
B_MaintainCall ==
    /\ bpc = "maintain"
    /\ mout[BackupProc] = "none"
    /\ M_Enter(BackupProc, FALSE, FALSE)

\* mutant: the disk-objectstore is backed up before the database is dumped
B_MaintainReturn_skips_dump ==
    /\ bpc = "maintain"
    /\ mpc[BackupProc] = "idle"
    /\ mout[BackupProc] \in {"ok", "inconsistent"}
    /\ IF mout[BackupProc] = "ok"
       THEN Proceed("maintain", TRUE, "loose")
       ELSE Raise("maintain")
    /\ mout' = [mout EXCEPT ![BackupProc] = "none"]
    /\ guk' = NoCall
    /\ UNCHANGED <<folders, runs, storeVars, lockVars, mpc, mfull,
                   mdry, mrepo, mdb, mprev, writerVars, txnVars>>

\* line 601: maintain has returned, or its exception leaves _backup
B_MaintainReturn ==
    /\ bpc = "maintain"
    /\ mpc[BackupProc] = "idle"
    /\ mout[BackupProc] \in {"ok", "inconsistent"}
    /\ IF mout[BackupProc] = "ok"
       THEN Proceed("maintain", TRUE, "pg_dump")
       ELSE Raise("maintain")
    /\ mout' = [mout EXCEPT ![BackupProc] = "none"]
    /\ guk' = NoCall
    /\ UNCHANGED <<folders, runs, storeVars, lockVars, mpc, mfull,
                   mdry, mrepo, mdb, mprev, writerVars, txnVars>>

\* lines 603-624: pg_dump into a temporary directory
B_PgDump(success) ==
    /\ bpc = "pg_dump"
    /\ Stage("pg_dump", success, "db_rsync")
    /\ UNCHANGED <<folders, runs, storeVars, lockVars, maintVars,
                   writerVars, guk, txnVars>>

\* lines 626-631: transfer of the database dump
B_DbRsync(success) ==
    /\ bpc = "db_rsync"
    /\ Stage("db_rsync", success, "loose")
    /\ folders' = IF success THEN call_rsync(bargs.dest, "db.psql") ELSE folders
    /\ UNCHANGED <<runs, storeVars, lockVars, maintVars, writerVars,
                   guk, txnVars>>

\* mutant: the packed files are transferred right after the loose files
B_Loose_then_packs(success) ==
    /\ bpc = "loose"
    /\ DosStage("loose", success, "packs")
    /\ folders' = IF success THEN call_rsync(bargs.dest, "loose") ELSE folders
    /\ UNCHANGED <<runs, storeVars, lockVars, maintVars, writerVars,
                   guk, txnVars>>

\* lines 451-457: transfer of the loose files
B_Loose(success) ==
    /\ bpc = "loose"
    /\ DosStage("loose", success, "idx_dump")
    /\ folders' = IF success THEN call_rsync(bargs.dest, "loose") ELSE folders
    /\ UNCHANGED <<runs, storeVars, lockVars, maintVars, writerVars,
                   guk, txnVars>>

\* lines 459-480: online copy of packs.idx into a temporary directory; the
\* sqlite3 calls can raise, and a missing copy ends the run with False
B_IdxDump(outcome) ==
    /\ bpc = "idx_dump"
    /\ IF outcome = "raise"
       THEN Raise("idx_dump")
       ELSE DosStage("idx_dump", outcome = "ok", "idx_rsync")
    /\ UNCHANGED <<folders, runs, storeVars, lockVars, maintVars,
                   writerVars, guk, txnVars>>

\* lines 482-487: transfer of the copy of packs.idx
B_IdxRsync(success) ==
    /\ bpc = "idx_rsync"
    /\ DosStage("idx_rsync", success, "packs")
    /\ folders' = IF success THEN call_rsync(bargs.dest, "packs.idx")
                  ELSE folders
    /\ UNCHANGED <<runs, storeVars, lockVars, maintVars, writerVars,
                   guk, txnVars>>

\* lines 489-495: transfer of the packed files
B_Packs(success) ==
    /\ bpc = "packs"
    /\ DosStage("packs", success, "rest")
    /\ folders' = IF success THEN call_rsync(bargs.dest, "packs") ELSE folders
    /\ UNCHANGED <<runs, storeVars, lockVars, maintVars, writerVars,
                   guk, txnVars>>

\* lines 497-516 and 640-641: everything else in the container folder
B_Rest(success) ==
    /\ bpc = "rest"
    /\ DosStage("rest", success, "config")
    /\ folders' = IF success THEN call_rsync(bargs.dest, "rest") ELSE folders
    /\ UNCHANGED <<runs, storeVars, lockVars, maintVars, writerVars,
                   guk, txnVars>>

\* mutant: a failed transfer of config.json does not end the run
B_Config_ignores_failure(outcome) ==
    /\ bpc = "config"
    /\ Stage("config", TRUE, "marker")
    /\ folders' = IF outcome = "ok" THEN call_rsync(bargs.dest, "config")
                  ELSE folders
    /\ UNCHANGED <<runs, storeVars, lockVars, maintVars, writerVars,
                   guk, txnVars>>

\* lines 643-650: config.json is transferred; when get_config() raises a
\* configuration error the stage is skipped with a warning
B_Config(outcome) ==
    /\ bpc = "config"
    /\ Stage(IF outcome = "missing" THEN "config_skipped" ELSE "config",
             outcome # "fail", "marker")
    /\ folders' = IF outcome = "ok" THEN call_rsync(bargs.dest, "config")
                  ELSE folders
    /\ UNCHANGED <<runs, storeVars, lockVars, maintVars, writerVars,
                   guk, txnVars>>

\* lines 658-659 and 690-697: what follows the marker
after_marker == IF bargs.mode = "auto"
                THEN IF prev_exists THEN "mv_old" ELSE "mv_live"
                ELSE "idle"

\* lines 652-659: touch COMPLETED_<timestamp>; _backup returns True
B_Marker(success) ==
    /\ bpc = "marker"
    /\ Stage("marker", success, after_marker)
    /\ folders' = IF success THEN call_rsync(bargs.dest, "COMPLETED")
                  ELSE folders
    /\ UNCHANGED <<runs, storeVars, lockVars, maintVars, writerVars,
                   guk, txnVars>>

\* lines 696-700: last-backup -> last-backup-old
B_MvOld(success) ==
    /\ bpc = "mv_old"
    /\ LET works == success /\ check_path_exists(final_folder)
       IN  /\ Stage("mv_old", works, "mv_live")
           /\ folders' = IF works THEN run_mv(final_folder, old_folder)
                         ELSE folders
    /\ UNCHANGED <<runs, storeVars, lockVars, maintVars, writerVars,
                   guk, txnVars>>

\* lines 701-704: live_backup -> last-backup
B_MvLive(success) ==
    /\ bpc = "mv_live"
    /\ LET works == success /\ check_path_exists(live_folder)
       IN  /\ Stage("mv_live", works, IF prev_exists THEN "rm_old" ELSE "idle")
           /\ folders' = IF works THEN run_mv(live_folder, final_folder)
                         ELSE folders
    /\ UNCHANGED <<runs, storeVars, lockVars, maintVars, writerVars,
                   guk, txnVars>>

\* lines 705-712: rm -rf last-backup-old; _backup_auto_folders returns True
B_RmOld(success) ==
    /\ bpc = "rm_old"
    /\ Stage("rm_old", success, "idle")
    /\ folders' = IF success THEN run_rm(old_folder) ELSE folders
    /\ UNCHANGED <<runs, storeVars, lockVars, maintVars, writerVars,
                   guk, txnVars>>

\* the process of the backup is stopped at any point of the run: the folders
\* stay as they are, its access to the profile and its maintain call end
B_Crash ==
    /\ bpc # "idle"
    /\ bpc' = "idle"
    /\ bresult' = "crashed"
    /\ bargs' = NoArgs
    /\ bdone' = {}
    /\ streak' = 0
    /\ access' = access \ {BackupProc}
    /\ mpc' = [mpc EXCEPT ![BackupProc] = "idle"]
    /\ mout' = [mout EXCEPT ![BackupProc] = "none"]
    /\ mfull' = [mfull EXCEPT ![BackupProc] = FALSE]
    /\ mdry' = [mdry EXCEPT ![BackupProc] = FALSE]
    /\ mrepo' = [mrepo EXCEPT ![BackupProc] = {}]
    /\ mdb' = [mdb EXCEPT ![BackupProc] = {}]
    /\ mprev' = IF mpc[BackupProc] = "idle" THEN mprev
                ELSE [mprev EXCEPT !.rm = NoRm]
    /\ UNCHANGED <<bfailed, folders, runs, storeVars, lockHolder,
                   writerVars, guk, txnVars>>

\* the process that ran the backup ends: its access record goes away
B_ProcessExit ==
    /\ bpc = "idle"
    /\ BackupProc \in access
    /\ access' = access \ {BackupProc}
    /\ UNCHANGED <<backupVars, storeVars, lockHolder, maintVars, writerVars,
                   guk, txnVars>>

(* ------------------------------- tables -------------------------------- *)
\* the rows of the tables reached by session.query(...): node ids, links as
\* <<input_id, output_id>>, group memberships as <<dbgroup_id, dbnode_id>>,
\* log records; `before` is what the migration test notes in to_check before
\* it migrates, `revision` the migration the tables are at
NoDb == [nodes |-> {}, links |-> {}, group_nodes |-> {}, logs |-> {},
         before |-> {}, revision |-> "none"]

\* lines 329-339: four DELETE statements through the session, in this order
delete_nodes_and_connections(d, pks_to_delete) ==
    LET d1 == [d  EXCEPT !.group_nodes = {gn \in @ : gn[2] \notin pks_to_delete}]
        d2 == [d1 EXCEPT !.links = {l \in @ : l[1] \notin pks_to_delete}]
        d3 == [d2 EXCEPT !.links = {l \in @ : l[2] \notin pks_to_delete}]
    IN  [d3 EXCEPT !.nodes = @ \ pks_to_delete]

(* --------------------------- log cleaning ------------------------------ *)
\* Revision 041a79fc615f_dblog_cleaning, reached from 7ca08c391c49.  A log
\* record of the older revision names its object by objpk and objname; the
\* objname is told apart by what it begins with: "node" for 'node.%',
\* "workflow" for 'aiida.workflows.user.%', "other" for anything else.  A
\* record of the newer revision has dbnode_id (DbLog, not nullable, foreign
\* key to db_dbnode.id) and neither of the two columns.
LogNames == {"node", "workflow", "other"}

\* the metadata column (JSONB, nullable): NULL, or a dictionary by its keys
NullMetadata == [null |-> TRUE, keys |-> {}]

LogMetadata ==
    {NullMetadata,
     [null |-> FALSE, keys |-> {"message", "objpk", "objname"}],
     [null |-> FALSE, keys |-> {"message"}]}

\* what a test may store in a log record before the migration
OldLogs == [objpk : Rows, objname : LogNames, metadata : LogMetadata]

\* the logs of legacy workflows
legacy_workflow_logs(d) == {l \in d.logs : l.objname = "workflow"}

\* mutant: the logs of unknown entities are not looked for
unknown_entity_logs_none(d) == {}

\* the logs of entities that are neither nodes nor legacy workflows
unknown_entity_logs(d) == {l \in d.logs : l.objname \notin {"node", "workflow"}}

\* the logs of nodes that do not exist
logs_with_no_nodes(d) ==
    {l \in d.logs : l.objname = "node" /\ l.objpk \notin d.nodes}

\* metadata - 'objpk' - 'objname'; NULL stays NULL
metadata_cleaned(m) ==
    IF m.null THEN m ELSE [m EXCEPT !.keys = @ \ {"objpk", "objname"}]

\* the upgrade: the three kinds of records are removed, dbnode_id takes the
\* value of objpk, the columns objpk and objname are dropped and their keys
\* taken out of the metadata
dblog_cleaning(d) ==
    LET removed == legacy_workflow_logs(d) \cup unknown_entity_logs(d)
                     \cup logs_with_no_nodes(d)
    IN  [d EXCEPT !.logs = {[id |-> l.id, objpk |-> 0, objname |-> "dropped",
                             metadata |-> metadata_cleaned(l.metadata),
                             dbnode_id |-> l.objpk] : l \in d.logs \ removed},
                  !.revision = "041a79fc615f"]

\* TestDbLogMigrationRecordCleaning: setUpBeforeMigration has stored nodes
\* and log records at revision 7ca08c391c49; the migration is run
L_Upgrade ==
    /\ db.revision = "7ca08c391c49"
    /\ db' = dblog_cleaning(db)
    /\ UNCHANGED <<be, prof, mig, committed, work, txs, blocks, exc, tlast,
                   strict, ins, upd, storeVars, lockVars, maintVars,
                   writerVars, guk, backupVars>>

(* ----------------------------- transactions ---------------------------- *)
\* The SQLAlchemy session of the calling thread (sessionmaker(future=True),
\* line 144): `committed` is the durable content of the database, `work` is
\* what the session sees, `txs` is its stack of transactions, the root first
\* and SAVEPOINTs above it.  `owner` is the depth of the transaction() block
\* whose `with` statement holds the transaction, 0 for one the session began
\* by itself.
Session == [txs |-> txs, work |-> work, committed |-> committed]

\* session.in_transaction()
session_in_transaction(S) == Len(S.txs) > 0

\* session.in_nested_transaction()
session_in_nested_transaction(S) == \E i \in 1..Len(S.txs) : S.txs[i].nested

\* the session begins a transaction by itself on first use
session_autobegin(S) ==
    IF Len(S.txs) = 0
    THEN [S EXCEPT !.txs = <<[owner |-> 0, nested |-> FALSE, snap |-> S.work]>>]
    ELSE S

\* session.begin(), called with no transaction begun
session_begin(S, d) ==
    [S EXCEPT !.txs = <<[owner |-> d, nested |-> FALSE, snap |-> S.work]>>]

\* session.begin_nested(): a SAVEPOINT in the transaction in progress
session_begin_nested(S, d) ==
    LET B == session_autobegin(S)
    IN  [B EXCEPT !.txs = Append(@, [owner |-> d, nested |-> TRUE,
                                     snap |-> B.work])]

\* session.commit() of a future=True session: the transaction in progress is
\* committed up to the root, whatever SAVEPOINTs are open
session_commit(S) == [S EXCEPT !.txs = <<>>, !.committed = S.work]

\* commit of the transaction at position i of the stack: a SAVEPOINT is
\* released together with those above it, the root is committed
tx_commit(S, i) ==
    IF S.txs[i].nested
    THEN [S EXCEPT !.txs = SubSeq(S.txs, 1, i - 1)]
    ELSE [S EXCEPT !.txs = <<>>, !.committed = S.work]

\* rollback of the transaction at position i: back to its beginning
tx_rollback(S, i) ==
    [S EXCEPT !.txs = SubSeq(S.txs, 1, i - 1), !.work = S.txs[i].snap]

\* the `with` statement that holds the transaction of block d ends: it commits
\* or rolls back that transaction if it is still in progress, and does nothing
\* if the transaction has been closed in the meantime
with_exit(S, d, nested, raised) ==
    LET held == {i \in 1..Len(S.txs) :
                    S.txs[i].owner = d /\ S.txs[i].nested = nested}
    IN  IF held = {} THEN S
        ELSE LET i == CHOOSE j \in held : TRUE
             IN  IF raised THEN tx_rollback(S, i) ELSE tx_commit(S, i)

\* the innermost `with` statement of block d holds a closed transaction
ctx_closed(S, d) ==
    d > 0 /\ ~\E i \in 1..Len(S.txs) : S.txs[i].owner = d /\ S.txs[i].nested

\* a new transaction of the session is refused with InvalidRequestError
new_transaction_raises(S, d) == strict /\ ctx_closed(S, d)

\* lines 241-242: which branch transaction() takes
transaction_branch(S) ==
    IF session_in_transaction(S) THEN "nested" ELSE "outer"

\* lines 243 and 247-248: entering the block
transaction_enter(S, d) ==
    IF transaction_branch(S) = "nested"
    THEN session_begin_nested(S, d)
    ELSE session_begin_nested(session_begin(S, d), d)

\* mutant: the inner branch does not call session.commit()
transaction_exit_no_commit(S, d, branch) ==
    IF branch = "nested"
    THEN with_exit(S, d, TRUE, FALSE)
    ELSE with_exit(with_exit(S, d, TRUE, FALSE), d, FALSE, FALSE)

\* lines 243-249: the body of the block ended normally
transaction_exit(S, d, branch) ==
    IF branch = "nested"
    THEN session_commit(with_exit(S, d, TRUE, FALSE))
    ELSE with_exit(with_exit(S, d, TRUE, FALSE), d, FALSE, FALSE)

\* line 245: session.commit() finds no transaction in progress, begins one
\* and is refused
transaction_exit_raises(S, d, branch) ==
    /\ branch = "nested"
    /\ Len(with_exit(S, d, TRUE, FALSE).txs) = 0
    /\ new_transaction_raises(with_exit(S, d, TRUE, FALSE), d - 1)

\* lines 243-249: an exception leaves the body of the block
transaction_raise(S, d, branch) ==
    IF branch = "nested"
    THEN with_exit(S, d, TRUE, TRUE)
    ELSE with_exit(with_exit(S, d, TRUE, TRUE), d, FALSE, TRUE)

SetSession(S) ==
    /\ txs' = S.txs
    /\ work' = S.work
    /\ committed' = S.committed

\* a query outside of any transaction() block: the session begins a
\* transaction by itself and stays in it
T_Autobegin ==
    /\ blocks = <<>>
    /\ txs = <<>>
    /\ SetSession(session_autobegin(Session))
    /\ UNCHANGED <<blocks, exc, tlast, strict, ins, upd, storeVars, lockVars, maintVars,
                   writerVars, guk, backupVars, lifeVars>>

\* `with backend.transaction():` is entered at depth Len(blocks) + 1
T_Enter ==
    /\ ~exc
    /\ Len(blocks) < MaxDepth
    /\ IF new_transaction_raises(Session, Len(blocks))
       THEN /\ exc' = TRUE
            /\ UNCHANGED <<blocks, txs, work, committed>>
       ELSE /\ exc' = FALSE
            /\ blocks' = Append(blocks,
                               [branch |-> transaction_branch(Session),
                                work |-> work, committed |-> committed])
            /\ SetSession(transaction_enter(Session, Len(blocks) + 1))
    /\ UNCHANGED <<tlast, strict, ins, upd, storeVars, lockVars, maintVars, writerVars,
                   guk, backupVars, lifeVars>>

\* the body of the innermost block adds or removes row r through the session
T_Write(r) ==
    /\ ~exc
    /\ blocks # <<>>
    /\ IF txs = <<>> /\ new_transaction_raises(Session, Len(blocks))
       THEN /\ exc' = TRUE
            /\ UNCHANGED <<txs, work, committed>>
       ELSE /\ exc' = FALSE
            /\ LET B == session_autobegin(Session)
               IN  SetSession([B EXCEPT !.work =
                                  IF r \in B.work THEN B.work \ {r}
                                  ELSE B.work \cup {r}])
    /\ UNCHANGED <<blocks, tlast, strict, ins, upd, storeVars, lockVars, maintVars,
                   writerVars, guk, backupVars, lifeVars>>

\* the session adds row r, or removes it if it is there
session_write(S, r) ==
    [S EXCEPT !.work = IF r \in S.work THEN S.work \ {r} ELSE S.work \cup {r}]

\* lines 304-306 and 318-320: a bulk_insert or bulk_update call, with rows
\* that pass the validation, writes row r: through the session as it is when
\* in_transaction is true, inside a transaction() block of its own otherwise
T_Bulk(r) ==
    /\ ~exc
    /\ LET d == Len(blocks) + 1
           branch == transaction_branch(Session)
           body == session_write(transaction_enter(Session, d), r)
       IN  IF session_in_nested_transaction(Session)
           THEN /\ SetSession(session_write(Session, r))
                /\ exc' = FALSE
           ELSE IF new_transaction_raises(Session, Len(blocks))
           THEN /\ exc' = TRUE
                /\ UNCHANGED <<txs, work, committed>>
           ELSE IF transaction_exit_raises(body, d, branch)
           THEN /\ SetSession(with_exit(body, d, TRUE, FALSE))
                /\ exc' = TRUE
           ELSE /\ SetSession(transaction_exit(body, d, branch))
                /\ exc' = FALSE
    /\ tlast' = [kind |-> "bulk", depth |-> Len(blocks)]
    /\ UNCHANGED <<blocks, strict, ins, upd, storeVars, lockVars, maintVars,
                   writerVars, guk, backupVars, lifeVars>>

\* lines 322-339: delete_nodes_and_connections(pks_to_delete); line 327
\* raises AssertionError unless in_transaction (lines 251-253) is true
T_Delete(pks_to_delete) ==
    /\ ~exc
    /\ IF ~session_in_nested_transaction(Session)
       THEN /\ tlast' = [kind |-> "delete_refused", depth |-> Len(blocks),
                         pks |-> pks_to_delete]
            /\ exc' = (blocks # <<>>)
            /\ db' = db
       ELSE /\ tlast' = [kind |-> "delete", depth |-> Len(blocks),
                         pks |-> pks_to_delete]
            /\ exc' = FALSE
            /\ db' = delete_nodes_and_connections(db, pks_to_delete)
    /\ UNCHANGED <<be, prof, mig, committed, work, txs, blocks, strict, ins,
                   upd, storeVars, lockVars, maintVars, writerVars, guk,
                   backupVars>>

\* the body of the innermost block ends normally
T_Exit ==
    /\ ~exc
    /\ blocks # <<>>
    /\ LET d == Len(blocks)
           branch == blocks[Len(blocks)].branch
       IN  IF transaction_exit_raises(Session, d, branch)
           THEN /\ SetSession(with_exit(Session, d, TRUE, FALSE))
                /\ tlast' = [kind |-> "commit_raised", depth |-> d]
                /\ exc' = TRUE
           ELSE /\ SetSession(transaction_exit(Session, d, branch))
                /\ tlast' = [kind |-> "normal", depth |-> d]
                /\ exc' = FALSE
    /\ blocks' = SubSeq(blocks, 1, Len(blocks) - 1)
    /\ UNCHANGED <<strict, ins, upd, storeVars, lockVars, maintVars, writerVars, guk,
                   backupVars, lifeVars>>

\* an exception leaves the innermost block: raised in its body, or passed on
\* by the block inside it; the enclosing body may handle it
T_Raise(handled) ==
    /\ blocks # <<>>
    /\ SetSession(transaction_raise(Session, Len(blocks),
                                    blocks[Len(blocks)].branch))
    /\ blocks' = SubSeq(blocks, 1, Len(blocks) - 1)
    /\ tlast' = [kind |-> "raised", depth |-> Len(blocks)]
    /\ exc' = (Len(blocks) > 1 /\ ~handled)
    /\ UNCHANGED <<strict, ins, upd, storeVars, lockVars, maintVars, writerVars, guk,
                   backupVars, lifeVars>>

(* ------------------------------ settings ------------------------------- *)
\* rows of DbSetting as the session sees them: <<key, val>>, key unique
SettingKeys == 1..NumSettings
SettingVals == 1..NumVals

\* session.query(DbSetting).filter(DbSetting.key == key)
setting_rows(S, key) == {r \in S.work : r[1] = key}

\* lines 357-361: the key exists and overwrite is false
set_body_raises(S, key, overwrite) ==
    setting_rows(S, key) # {} /\ ~overwrite

\* lines 357-363 when no ValueError is raised: UPDATE of the row, or a new row
set_body(S, key, value) ==
    [S EXCEPT !.work = (@ \ setting_rows(S, key)) \cup {<<key, value>>}]

\* lines 355-356 and 368-369: the body runs in the session as it is when
\* in_transaction is true, in a transaction() block of its own otherwise;
\* the body raises or leaves the rows work_after (entering a block changes
\* no row); the session after the call and how the call ended
in_own_block(S, raises, work_after) ==
    LET d == Len(blocks) + 1
        branch == transaction_branch(S)
        entered == transaction_enter(S, d)
        after == [entered EXCEPT !.work = work_after]
    IN  IF session_in_nested_transaction(S)
        THEN IF raises THEN [s |-> S, result |-> "raised"]
             ELSE [s |-> [S EXCEPT !.work = work_after], result |-> "ok"]
        ELSE IF new_transaction_raises(S, Len(blocks))
        THEN [s |-> S, result |-> "InvalidRequestError"]
        ELSE IF raises
        THEN [s |-> transaction_raise(entered, d, branch), result |-> "raised"]
        ELSE IF transaction_exit_raises(after, d, branch)
        THEN [s |-> with_exit(after, d, TRUE, FALSE),
              result |-> "InvalidRequestError"]
        ELSE [s |-> transaction_exit(after, d, branch), result |-> "ok"]

\* lines 350-363: set_global_variable(key, value, overwrite=overwrite); the
\* caller, when inside a block, handles an exception or lets it pass
S_Set(key, value, overwrite, handled) ==
    /\ ~exc
    /\ LET call == in_own_block(Session,
                                set_body_raises(Session, key, overwrite),
                                set_body(Session, key, value).work)
       IN  /\ SetSession(call.s)
           /\ tlast' = [kind |-> "set", depth |-> Len(blocks), key |-> key,
                        value |-> value, overwrite |-> overwrite,
                        result |-> IF call.result = "raised" THEN "ValueError"
                                   ELSE call.result]
           /\ exc' = (call.result # "ok" /\ blocks # <<>> /\ ~handled)
    /\ UNCHANGED <<blocks, strict, ins, upd, storeVars, lockVars, maintVars,
                   writerVars, guk, backupVars, lifeVars>>

\* lines 365-373: get_global_variable(key)
S_Get(key, handled) ==
    /\ ~exc
    /\ LET found == setting_rows(Session, key)
           call == in_own_block(Session, found = {}, work)
       IN  /\ SetSession(call.s)
           /\ tlast' = [kind |-> "get", depth |-> Len(blocks), key |-> key,
                        value |-> IF call.result = "ok"
                                  THEN (CHOOSE r \in found : TRUE)[2] ELSE 0,
                        result |-> IF call.result = "raised" THEN "KeyError"
                                   ELSE call.result]
           /\ exc' = (call.result # "ok" /\ blocks # <<>> /\ ~handled)
    /\ UNCHANGED <<blocks, strict, ins, upd, storeVars, lockVars, maintVars,
                   writerVars, guk, backupVars, lifeVars>>

(* ------------------------- backend life cycle -------------------------- *)
\* the schema versions, in the order of the migration chain
Versions == 0..NumVersions

\* the head of the migration chain: the version the code expects
version_head == NumVersions

NoOp == [op |-> "none", result |-> "none"]

NoBackend == [state |-> "none", factory |-> FALSE, validated |-> FALSE,
              sessions |-> 0, writes |-> 0, calls |-> 0, closes |-> 0,
              last |-> NoOp]

\* migrator.validate_storage(): the storage is unreachable or its schema
\* version is not the head
validate_storage_raises(p) == ~p.reachable \/ p.ver # version_head

\* mutant: the session factory is made without validating the storage
construct_unvalidated(p) ==
    [NoBackend EXCEPT !.state = "open", !.factory = TRUE,
                      !.validated = ~validate_storage_raises(p),
                      !.sessions = 1]

\* lines 104-114: __init__ validates the storage, then makes the session
\* factory and takes a first session from it; when the validation raises,
\* the constructor ends there
construct(p) ==
    IF validate_storage_raises(p)
    THEN [NoBackend EXCEPT !.state = "failed"]
    ELSE [NoBackend EXCEPT !.state = "open", !.factory = TRUE,
                           !.validated = TRUE, !.sessions = 1]

\* lines 124-126: is_closed
is_closed(b) == ~b.factory

\* the instance exists for its caller
Constructed(b) == b.state \in {"open", "closed"}

\* one more call on the instance has ended with `result`
Called(b, op, result) ==
    [b EXCEPT !.calls = @ + 1, !.last = [op |-> op, result |-> result]]

\* mutant: get_session makes a new session factory when there is none
get_session_reopens(b) ==
    Called([b EXCEPT !.factory = TRUE, !.state = "open", !.sessions = @ + 1],
           "get_session", "ok")

\* lines 146-150: get_session
get_session(b) ==
    IF b.factory
    THEN Called([b EXCEPT !.sessions = @ + 1], "get_session", "ok")
    ELSE Called(b, "get_session", "ClosedStorage")

\* an operation that begins with self.get_session() or self.in_transaction
\* and then ends with `result`, having written to the store or not
needs_session(b, op, result, writes) ==
    IF get_session(b).last.result = "ClosedStorage"
    THEN Called(b, op, "ClosedStorage")
    ELSE Called([get_session(b) EXCEPT !.writes = IF writes THEN @ + 1 ELSE @,
                                       !.calls = b.calls],
                op, result)

\* lines 286-307 and 309-320: bulk_insert and bulk_update return on an empty
\* list and validate the rows before they ask for the session
bulk_call(b, op, rows) ==
    IF rows = "empty" THEN Called(b, op, "ok")
    ELSE IF rows = "invalid" THEN Called(b, op, "IntegrityError")
    ELSE needs_session(b, op, "ok", TRUE)

\* lines 152-166: close
close(b) ==
    IF ~b.factory THEN Called([b EXCEPT !.closes = @ + 1], "close", "ok")
    ELSE Called([b EXCEPT !.factory = FALSE, !.state = "closed",
                          !.closes = @ + 1],
                "close", "ok")

Be_Act(b) ==
    /\ be' = b
    /\ UNCHANGED <<prof, mig, db, committed, work, txs, blocks, exc, tlast,
                   strict, ins, upd, storeVars, lockVars, maintVars,
                   writerVars, guk, backupVars>>

\* PsqlDosBackend(profile)
Be_Construct ==
    /\ be.state = "none"
    /\ Be_Act(construct(prof))

Be_Ready == Constructed(be) /\ be.calls < MaxOps

Be_GetSession == Be_Ready /\ Be_Act(get_session(be))

\* lines 234-249: transaction() asks for the session when it is entered
Be_Transaction == Be_Ready /\ Be_Act(needs_session(be, "transaction", "ok", FALSE))

\* lines 251-253
Be_InTransaction ==
    Be_Ready /\ Be_Act(needs_session(be, "in_transaction", "ok", FALSE))

Be_BulkInsert(rows) == Be_Ready /\ Be_Act(bulk_call(be, "bulk_insert", rows))

Be_BulkUpdate(rows) == Be_Ready /\ Be_Act(bulk_call(be, "bulk_update", rows))

\* lines 322-339: refused outside a transaction
Be_DeleteNodes(in_txn) ==
    /\ Be_Ready
    /\ Be_Act(needs_session(be, "delete_nodes_and_connections",
                            IF in_txn THEN "ok" ELSE "AssertionError", in_txn))

\* lines 350-363: refused when the setting exists and overwrite is false
Be_SetGlobal(exists, overwrite) ==
    /\ Be_Ready
    /\ LET refused == exists /\ ~overwrite
       IN  Be_Act(needs_session(be, "set_global_variable",
                                IF refused THEN "ValueError" ELSE "ok",
                                ~refused))

\* lines 365-373: a missing setting is a KeyError
Be_GetGlobal(exists) ==
    /\ Be_Ready
    /\ Be_Act(needs_session(be, "get_global_variable",
                            IF exists THEN "ok" ELSE "KeyError", FALSE))

Be_Close == Be_Ready /\ Be_Act(close(be))

(* ------------------------------ migration ------------------------------ *)
\* one migration call: `target` is the version its caller asked for, `dest`
\* the end of the chain that runs, `from` the stored version when it began,
\* `steps` the steps it has committed, tx the transaction of the running step
NoTx == [open |-> FALSE, ver |-> 0, data |-> 0]

NoMig == [pc |-> "idle", kind |-> "none", target |-> 0, dest |-> 0,
          from |-> 0, steps |-> 0, tx |-> NoTx, n |-> 0]

\* current_rev: the revision stored in the database
current_rev(p) == p.ver

\* the version after one step towards the target
next_version(v, target) == IF target > v THEN v + 1 ELSE v - 1

\* a call begins: nothing to do when the profile is at the target
begin_call(m, p, kind, target, dest) ==
    [m EXCEPT !.pc = IF current_rev(p) = dest THEN "done" ELSE "step",
              !.kind = kind, !.target = target, !.dest = dest,
              !.from = current_rev(p), !.steps = 0, !.tx = NoTx]

\* a call that is refused before its first step
refuse_call(m, p, kind, target) ==
    [m EXCEPT !.pc = "failed", !.kind = kind, !.target = target,
              !.dest = target, !.from = current_rev(p), !.steps = 0,
              !.tx = NoTx]

\* lines 90-93: migrate() runs the chain from the stored version to the head
migrate(m, p) == begin_call(m, p, "migrate", version_head, version_head)

\* mutant: the upgrade runs to the head, whatever the destination
migrate_db_up_to_head(m, p, destination) ==
    IF destination < current_rev(p)
    THEN refuse_call(m, p, "up", destination)
    ELSE begin_call(m, p, "up", destination, version_head)

\* lines 81-90: command.upgrade to `destination`; a destination behind the
\* stored revision is not an upgrade target
migrate_db_up(m, p, destination) ==
    IF destination < current_rev(p)
    THEN refuse_call(m, p, "up", destination)
    ELSE begin_call(m, p, "up", destination, destination)

\* lines 92-100: command.downgrade to `destination`
migrate_db_down(m, p, destination) ==
    IF destination > current_rev(p)
    THEN refuse_call(m, p, "down", destination)
    ELSE begin_call(m, p, "down", destination, destination)

\* mutant: a failed step keeps the part of the transform it had applied
step_rollback_keeps_data(p, tx) == [p EXCEPT !.data = tx.data]

\* a failed step is rolled back: the stored data and version are untouched
step_rollback(p, tx) == p

\* the step's transaction is committed: transform and version marker together
step_commit(p, tx) == [p EXCEPT !.ver = tx.ver, !.data = tx.data]

Mg_Act(m, p) ==
    /\ mig' = m
    /\ prof' = p
    /\ UNCHANGED <<be, db, committed, work, txs, blocks, exc, tlast, strict,
                   ins, upd, storeVars, lockVars, maintVars, writerVars, guk,
                   backupVars>>

Mg_Migrate == mig.pc = "idle" /\ Mg_Act(migrate(mig, prof), prof)

Mg_Up(destination) ==
    mig.pc = "idle" /\ Mg_Act(migrate_db_up(mig, prof, destination), prof)

Mg_Down(destination) ==
    mig.pc = "idle" /\ Mg_Act(migrate_db_down(mig, prof, destination), prof)

\* the next pending step opens its transaction
Mg_StepBegin ==
    /\ mig.pc = "step"
    /\ Mg_Act([mig EXCEPT !.pc = "open",
                          !.tx = [open |-> TRUE, ver |-> prof.ver,
                                  data |-> prof.data]],
              prof)

\* the DDL change and the data transform of the step
Mg_Transform ==
    /\ mig.pc = "open"
    /\ Mg_Act([mig EXCEPT !.pc = "transformed",
                          !.tx.data = next_version(@, mig.dest)],
              prof)

\* the version marker is moved to the step's version
Mg_Stamp ==
    /\ mig.pc = "transformed"
    /\ Mg_Act([mig EXCEPT !.pc = "stamped",
                          !.tx.ver = next_version(@, mig.dest)],
              prof)

Mg_StepCommit ==
    /\ mig.pc = "stamped"
    /\ Mg_Act([mig EXCEPT !.pc = IF mig.tx.ver = mig.dest THEN "done"
                                 ELSE "step",
                          !.steps = @ + 1, !.tx = NoTx],
              step_commit(prof, mig.tx))

\* the step raises at any point before its commit
Mg_StepFail ==
    /\ mig.pc \in {"open", "transformed", "stamped"}
    /\ Mg_Act([mig EXCEPT !.pc = "failed", !.tx = NoTx],
              step_rollback(prof, mig.tx))

\* the call has returned or raised; the caller may start another
Mg_Return ==
    /\ mig.pc \in {"done", "failed"}
    /\ mig.n < MaxOps
    /\ Mg_Act([NoMig EXCEPT !.n = mig.n + 1], prof)


InitLife ==
    /\ be = NoBackend
    /\ prof = [ver |-> version_head, data |-> version_head, other |-> 0, reachable |-> TRUE]
    /\ mig = NoMig
    /\ db = NoDb

(* ----------------------------- bulk insert ----------------------------- *)
\* EntityTypes of lines 271-281, one for each kind the code tells apart:
\* the three whose 'metadata' field is renamed, and one of the others
EntityTypes == {"AUTHINFO", "COMPUTER", "LOG", "NODE"}

\* field names a caller may put into a row
FieldNames == {"id", "message", "metadata", "_metadata", "extra"}

\* line 290: the entity types whose rows are renamed
renamed_types == {"COMPUTER", "LOG", "AUTHINFO"}

\* mapper.primary_key
primary_key(entity_type) == {"id"}

\* mapper.c.keys(): the attribute names of the model class; DbLog declares
\* `_metadata = Column('metadata', JSONB)`
mapper_columns(entity_type) ==
    IF entity_type \in renamed_types THEN {"id", "message", "_metadata"}
    ELSE {"id", "message"}

\* lines 283-284: keys of _get_mapper_from_entity(entity_type, with_pk)
get_mapper_from_entity(entity_type, with_pk) ==
    IF with_pk THEN mapper_columns(entity_type)
    ELSE mapper_columns(entity_type) \ primary_key(entity_type)

\* line 292: row.pop('metadata') raises KeyError on a row without the field
pop_raises(row) == "metadata" \notin row

\* line 292: row['_metadata'] = row.pop('metadata')
rename_row(row) == (row \ {"metadata"}) \cup {"_metadata"}

\* lines 290-292: the rows after the renaming loop, which stops at the first
\* row that raises
renamed_rows(entity_type, rows) ==
    IF entity_type \notin renamed_types THEN rows
    ELSE [i \in 1..Len(rows) |->
            IF \A j \in 1..i : ~pop_raises(rows[j])
            THEN rename_row(rows[i]) ELSE rows[i]]

\* lines 295 and 299: the test that rejects a row
row_rejected(row, keys, allow_defaults) ==
    IF allow_defaults THEN ~(row \subseteq keys) ELSE row # keys

\* lines 286-307: how the call ends
bulk_insert_outcome(entity_type, rows, allow_defaults) ==
    LET keys == get_mapper_from_entity(entity_type, FALSE)
        after == renamed_rows(entity_type, rows)
    IN  IF rows = <<>> THEN "ok"
        ELSE IF /\ entity_type \in renamed_types
                /\ \E i \in 1..Len(rows) : pop_raises(rows[i])
        THEN "KeyError"
        ELSE IF \E i \in 1..Len(after) :
                   row_rejected(after[i], keys, allow_defaults)
        THEN "IntegrityError"
        ELSE "ok"

\* line 306: session.bulk_insert_mappings(mapper, rows, return_defaults=True)
\* adds one record per row, in the order of the list, each with the next
\* value of the table's primary key sequence
bulk_insert_mappings(table, rows) ==
    table \o [i \in 1..Len(rows) |-> [id |-> Len(table) + i, fields |-> rows[i]]]

\* line 306: with return_defaults=True every row dictionary receives the
\* primary key of its record under 'id'
rows_with_defaults(table, rows) ==
    [i \in 1..Len(rows) |-> [id |-> Len(table) + i, fields |-> rows[i]]]

\* mutant: the key of the first row is returned for every row
returned_ids_first(rowdicts) ==
    [i \in 1..Len(rowdicts) |-> rowdicts[1].id]

\* line 307: return [row['id'] for row in rows]
returned_ids(rowdicts) ==
    [i \in 1..Len(rowdicts) |-> rowdicts[i].id]

NoInsert == [pc |-> "none", entity_type |-> "NODE", input |-> <<>>,
             rows |-> <<>>, allow_defaults |-> FALSE, outcome |-> "none",
             ret |-> <<>>, table |-> <<>>]

\* every list of at most MaxBatch rows
Batches == UNION {[1..n -> SUBSET FieldNames] : n \in 0..MaxBatch}

\* lines 286-307: bulk_insert(entity_type, rows, allow_defaults)
I_BulkInsert ==
    /\ ins.pc = "call"
    /\ LET outcome == bulk_insert_outcome(ins.entity_type, ins.input,
                                          ins.allow_defaults)
           after == renamed_rows(ins.entity_type, ins.input)
       IN  ins' = [ins EXCEPT !.pc = "returned",
                              !.outcome = outcome,
                              !.rows = after,
                              !.ret = IF outcome = "ok"
                                      THEN returned_ids(
                                             rows_with_defaults(ins.table, after))
                                      ELSE <<>>,
                              !.table = IF outcome = "ok"
                                        THEN bulk_insert_mappings(@, after)
                                        ELSE @]
    /\ UNCHANGED <<committed, work, txs, blocks, exc, tlast, strict, upd,
                   storeVars, lockVars, maintVars, writerVars, guk,
                   backupVars, lifeVars>>

\* the records of the table a bulk_update call works on: row i of the call
\* names record i, and one more record is named by no row
RecordIds == 1..(MaxBatch + 1)

\* lines 313-317: the test that rejects a row
update_row_rejected(row, keys) ==
    "id" \notin row \/ ~(row \subseteq keys)

\* lines 309-320: how the call ends
bulk_update_outcome(entity_type, rows) ==
    LET keys == get_mapper_from_entity(entity_type, TRUE)
    IN  IF rows = <<>> THEN "ok"
        ELSE IF \E i \in 1..Len(rows) : update_row_rejected(rows[i], keys)
        THEN "IntegrityError"
        ELSE "ok"

\* line 320: session.bulk_update_mappings(mapper, rows) sets, in the record
\* named by each row's 'id', the columns the row lists
bulk_update_mappings(table, rows) ==
    [k \in RecordIds |->
        IF k \in 1..Len(rows) /\ "id" \in rows[k]
        THEN table[k] \cup (rows[k] \ {"id"}) ELSE table[k]]

NoUpdate == [pc |-> "none", entity_type |-> "NODE", input |-> <<>>,
             outcome |-> "none", table |-> [k \in RecordIds |-> {}]]

\* lines 309-320: bulk_update(entity_type, rows)
U_BulkUpdate ==
    /\ upd.pc = "call"
    /\ LET outcome == bulk_update_outcome(upd.entity_type, upd.input)
       IN  upd' = [upd EXCEPT !.pc = "returned",
                              !.outcome = outcome,
                              !.table = IF outcome = "ok"
                                        THEN bulk_update_mappings(@, upd.input)
                                        ELSE @]
    /\ UNCHANGED <<committed, work, txs, blocks, exc, tlast, strict, ins,
                   storeVars, lockVars, maintVars, writerVars, guk,
                   backupVars, lifeVars>>

(* --------------------------- specifications ---------------------------- *)
\* a consistent profile: every referenced key is stored
InitStore ==
    /\ loose \in SUBSET Keys
    /\ packed \in SUBSET Keys
    /\ loose \cap packed = {}
    /\ dbrefs \in SUBSET (loose \cup packed)

InitMaint ==
    /\ lockHolder = "none"
    /\ access = {}
    /\ mpc = [m \in Maintainers |-> "idle"]
    /\ mfull = [m \in Maintainers |-> FALSE]
    /\ mdry = [m \in Maintainers |-> FALSE]
    /\ mrepo = [m \in Maintainers |-> {}]
    /\ mdb = [m \in Maintainers |-> {}]
    /\ mout = [m \in Maintainers |-> "none"]
    /\ mprev = NoPrev
    /\ wpc = "idle"
    /\ wkey = 1
    /\ guk = NoCall

InitBackup ==
    /\ bpc = "idle"
    /\ bargs = NoArgs
    /\ bresult = "none"
    /\ bdone = {}
    /\ bfailed = "none"
    /\ folders = [f \in Folders |-> NoFolder]
    /\ runs = 0
    /\ streak = 0

InitTxn ==
    /\ committed = {}
    /\ work = committed
    /\ txs = <<>>
    /\ blocks = <<>>
    /\ exc = FALSE
    /\ tlast = [kind |-> "none", depth |-> 0]
    /\ strict = FALSE
    /\ ins = NoInsert
    /\ upd = NoUpdate
    /\ InitLife

\* nodes 0..NumRows, a link between every two of them, one group that holds
\* them all
InitGraph ==
    [NoDb EXCEPT !.nodes = 0..NumRows,
                 !.links = {l \in (0..NumRows) \X (0..NumRows) : l[1] # l[2]},
                 !.group_nodes = {<<0, n>> : n \in 0..NumRows}]

\* a session over any content of the database, with either SQLAlchemy build
InitTxnAny ==
    /\ committed \in SUBSET Rows
    /\ work = committed
    /\ txs = <<>>
    /\ blocks = <<>>
    /\ exc = FALSE
    /\ tlast = [kind |-> "none", depth |-> 0]
    /\ strict \in BOOLEAN
    /\ ins = NoInsert
    /\ upd = NoUpdate
    /\ InitLife

Init == InitStore /\ InitMaint /\ InitBackup /\ InitTxn

AllIdle == \A m \in Maintainers : mpc[m] = "idle"

OthersIdle(m) == \A o \in Maintainers \ {m} : mpc[o] = "idle"

\* calls made one after the other: a maintain call runs to its end before
\* anything else happens
SeqNext ==
    \/ \E full \in BOOLEAN, dry_run \in BOOLEAN : M_Enter("m1", full, dry_run)
    \/ M_Step("m1")
    \/ \E k \in Keys : AllIdle /\ W_StoreBlob(k)
    \/ AllIdle /\ W_Commit
    \/ \E k \in Keys : AllIdle /\ W_DeleteRecord(k)
    \/ \E c \in BOOLEAN : get_unreferenced_keyset(c)

SpecSeq == Init /\ [][SeqNext]_vars

\* the same calls, with an object store whose operations may fail
FailNext ==
    \/ \E full \in BOOLEAN, dry_run \in BOOLEAN : M_Enter("m1", full, dry_run)
    \/ M_Step("m1")
    \/ M_DeleteFails("m1")
    \/ M_RepoMaintainFails("m1")
    \/ \E k \in Keys : AllIdle /\ W_StoreBlob(k)
    \/ AllIdle /\ W_Commit
    \/ \E k \in Keys : AllIdle /\ W_DeleteRecord(k)

SpecFail == Init /\ [][FailNext]_vars

\* maintain(full=False) calls during normal use
LiveNext ==
    \/ \E dry_run \in BOOLEAN : M_Enter("m1", FALSE, dry_run)
    \/ M_Step("m1")
    \/ \E k \in Keys : W_StoreBlob(k)
    \/ W_Commit
    \/ \E k \in Keys : W_DeleteRecord(k)

SpecLive == Init /\ [][LiveNext]_vars

\* concurrent maintain(full=True) calls during normal use
FullNext ==
    \/ \E m \in {"m1", "m2"}, dry_run \in BOOLEAN : M_Enter(m, TRUE, dry_run)
    \/ \E m \in {"m1", "m2"} : M_Step(m)
    \/ \E k \in Keys : W_StoreBlob(k)
    \/ W_Commit
    \/ \E k \in Keys : W_DeleteRecord(k)

SpecFull == Init /\ [][FullNext]_vars

\* backups, one at a time, next to a maintain(full=True) of another process;
\* the profile may already reference a key that the store has lost
InitStoreAny ==
    /\ loose \in {{}, {1}}
    /\ packed = {}
    /\ dbrefs \in {{}, {1}}

BackupNext ==
    \/ \E path \in {"X"}, prev_backup \in Folders \ {"X"}, remote \in BOOLEAN :
          B_CallExplicit(path, prev_backup, remote)
    \/ \E remote \in BOOLEAN : B_CallAuto(remote)
    \/ \E success \in BOOLEAN : B_Remote(success)
    \/ \E success \in BOOLEAN : B_Tools(success)
    \/ \E success \in BOOLEAN : B_Dest(success)
    \/ B_Access
    \/ B_MaintainCall
    \/ M_Step(BackupProc)
    \/ B_MaintainReturn
    \/ \E success \in BOOLEAN : B_PgDump(success)
    \/ \E success \in BOOLEAN : B_DbRsync(success)
    \/ \E success \in BOOLEAN : B_Loose(success)
    \/ \E outcome \in {"ok", "missing", "raise"} : B_IdxDump(outcome)
    \/ \E success \in BOOLEAN : B_IdxRsync(success)
    \/ \E success \in BOOLEAN : B_Packs(success)
    \/ \E success \in BOOLEAN : B_Rest(success)
    \/ \E outcome \in {"ok", "fail", "missing"} : B_Config(outcome)
    \/ \E success \in BOOLEAN : B_Marker(success)
    \/ \E success \in BOOLEAN : B_MvOld(success)
    \/ \E success \in BOOLEAN : B_MvLive(success)
    \/ \E success \in BOOLEAN : B_RmOld(success)
    \/ B_Crash
    \/ B_ProcessExit
    \/ \E dry_run \in BOOLEAN : M_Enter("m1", TRUE, dry_run)
    \/ M_Step("m1")

BackupInit == InitStoreAny /\ InitMaint /\ InitBackup /\ InitTxn

Spec == BackupInit /\ [][BackupNext]_vars

\* automatic backups of one process, called again and again: the first run
\* may fail at any stage or be stopped, in every later run all tools and
\* stages work; no other process holds the profile
FirstRun == runs = 1

RetryNext ==
    \/ \E remote \in BOOLEAN : B_CallAuto(remote)
    \/ \E remote \in BOOLEAN : B_CallAutoAgain(remote)
    \/ \E success \in BOOLEAN : (success \/ FirstRun) /\ B_Remote(success)
    \/ \E success \in BOOLEAN : (success \/ FirstRun) /\ B_Tools(success)
    \/ \E success \in BOOLEAN : (success \/ FirstRun) /\ B_Dest(success)
    \/ B_Access
    \/ B_MaintainCall
    \/ M_Step(BackupProc)
    \/ B_MaintainReturn
    \/ \E success \in BOOLEAN : (success \/ FirstRun) /\ B_PgDump(success)
    \/ \E success \in BOOLEAN : (success \/ FirstRun) /\ B_DbRsync(success)
    \/ \E success \in BOOLEAN : (success \/ FirstRun) /\ B_Loose(success)
    \/ \E outcome \in {"ok", "missing", "raise"} :
          (outcome = "ok" \/ FirstRun) /\ B_IdxDump(outcome)
    \/ \E success \in BOOLEAN : (success \/ FirstRun) /\ B_IdxRsync(success)
    \/ \E success \in BOOLEAN : (success \/ FirstRun) /\ B_Packs(success)
    \/ \E success \in BOOLEAN : (success \/ FirstRun) /\ B_Rest(success)
    \/ \E outcome \in {"ok", "fail", "missing"} :
          (outcome = "ok" \/ FirstRun) /\ B_Config(outcome)
    \/ \E success \in BOOLEAN : (success \/ FirstRun) /\ B_Marker(success)
    \/ \E success \in BOOLEAN : (success \/ FirstRun) /\ B_MvOld(success)
    \/ \E success \in BOOLEAN : (success \/ FirstRun) /\ B_MvLive(success)
    \/ \E success \in BOOLEAN : (success \/ FirstRun) /\ B_RmOld(success)
    \/ FirstRun /\ B_Crash
    \/ B_ProcessExit

\* the store holds every object the database references
RetryInit == InitStore /\ InitMaint /\ InitBackup /\ InitTxn

\* a run that has begun goes on, and the caller calls backup() again and
\* again
SpecRetry == RetryInit /\ [][RetryNext]_vars /\ WF_vars(RetryNext)

\* one thread that uses transaction() blocks, nested up to MaxDepth
InitStoreEmpty ==
    /\ loose = {}
    /\ packed = {}
    /\ dbrefs = {}

TxnNext ==
    \/ T_Autobegin
    \/ T_Enter
    \/ \E r \in Rows : T_Write(r)
    \/ \E r \in Rows : T_Bulk(r)
    \/ T_Exit
    \/ \E handled \in BOOLEAN : T_Raise(handled)

TxnInit == InitStoreEmpty /\ InitMaint /\ InitBackup /\ InitTxnAny

SpecTxn == TxnInit /\ [][TxnNext]_vars

\* the log-cleaning migration on any nodes and any log records, with one
\* record for each log id at most
InitLogsAny ==
    /\ committed = {}
    /\ work = committed
    /\ txs = <<>>
    /\ blocks = <<>>
    /\ exc = FALSE
    /\ tlast = [kind |-> "none", depth |-> 0]
    /\ strict = FALSE
    /\ ins = NoInsert
    /\ upd = NoUpdate
    /\ be = NoBackend
    /\ prof = [ver |-> version_head, data |-> version_head, other |-> 0, reachable |-> TRUE]
    /\ mig = NoMig
    /\ \E nodes \in SUBSET Rows, stored \in SUBSET (1..NumLogs) :
       \E record \in [1..NumLogs -> OldLogs] :
          LET logs == {[id |-> i, objpk |-> record[i].objpk,
                        objname |-> record[i].objname,
                        metadata |-> record[i].metadata,
                        dbnode_id |-> 0] : i \in stored}
          IN  db = [NoDb EXCEPT !.nodes = nodes, !.logs = logs,
                                !.before = logs, !.revision = "7ca08c391c49"]

LogsInit == InitStoreEmpty /\ InitMaint /\ InitBackup /\ InitLogsAny

LogsNext == L_Upgrade

SpecLogs == LogsInit /\ [][LogsNext]_vars

\* one thread that sets and gets settings, inside and outside transaction()
\* blocks, over any content of the settings table
InitSettingsAny ==
    /\ committed \in {c \in SUBSET (SettingKeys \X SettingVals) :
                         \A r1 \in c, r2 \in c : r1[1] = r2[1] => r1 = r2}
    /\ work = committed
    /\ txs = <<>>
    /\ blocks = <<>>
    /\ exc = FALSE
    /\ tlast = [kind |-> "none", depth |-> 0]
    /\ strict \in BOOLEAN
    /\ ins = NoInsert
    /\ upd = NoUpdate
    /\ InitLife

SettingsInit == InitStoreEmpty /\ InitMaint /\ InitBackup /\ InitSettingsAny

SettingsNext ==
    \/ T_Autobegin
    \/ T_Enter
    \/ \E key \in SettingKeys, value \in SettingVals, overwrite \in BOOLEAN,
          handled \in BOOLEAN : S_Set(key, value, overwrite, handled)
    \/ \E key \in SettingKeys, handled \in BOOLEAN : S_Get(key, handled)
    \/ T_Exit
    \/ \E handled \in BOOLEAN : T_Raise(handled)

SpecSettings == SettingsInit /\ [][SettingsNext]_vars

\* one thread that deletes nodes, inside and outside transaction() blocks
InitDeleteAny ==
    /\ committed = {}
    /\ work = committed
    /\ txs = <<>>
    /\ blocks = <<>>
    /\ exc = FALSE
    /\ tlast = [kind |-> "none", depth |-> 0]
    /\ strict \in BOOLEAN
    /\ ins = NoInsert
    /\ upd = NoUpdate
    /\ be = NoBackend
    /\ prof = [ver |-> version_head, data |-> version_head, other |-> 0, reachable |-> TRUE]
    /\ mig = NoMig
    /\ db = InitGraph

DeleteInit == InitStoreEmpty /\ InitMaint /\ InitBackup /\ InitDeleteAny

DeleteNext ==
    \/ T_Autobegin
    \/ T_Enter
    \/ \E pks \in SUBSET Rows \ {{}} : T_Delete(pks)
    \/ T_Exit
    \/ \E handled \in BOOLEAN : T_Raise(handled)

SpecDelete == DeleteInit /\ [][DeleteNext]_vars

\* one bulk_insert call on any batch of rows
InitInsertAny ==
    /\ committed = {}
    /\ work = committed
    /\ txs = <<>>
    /\ blocks = <<>>
    /\ exc = FALSE
    /\ tlast = [kind |-> "none", depth |-> 0]
    /\ strict = FALSE
    /\ \E e \in EntityTypes, b \in Batches, a \in BOOLEAN :
          ins = [NoInsert EXCEPT !.pc = "call", !.entity_type = e,
                                 !.input = b, !.rows = b,
                                 !.allow_defaults = a]
    /\ upd = NoUpdate
    /\ InitLife

InsertInit == InitStoreEmpty /\ InitMaint /\ InitBackup /\ InitInsertAny

InsertNext == I_BulkInsert

SpecInsert == InsertInit /\ [][InsertNext]_vars

\* one bulk_update call on any batch of rows
InitUpdateAny ==
    /\ committed = {}
    /\ work = committed
    /\ txs = <<>>
    /\ blocks = <<>>
    /\ exc = FALSE
    /\ tlast = [kind |-> "none", depth |-> 0]
    /\ strict = FALSE
    /\ ins = NoInsert
    /\ \E e \in EntityTypes, b \in Batches :
          upd = [NoUpdate EXCEPT !.pc = "call", !.entity_type = e, !.input = b]
    /\ InitLife

UpdateInit == InitStoreEmpty /\ InitMaint /\ InitBackup /\ InitUpdateAny

UpdateNext == U_BulkUpdate

SpecUpdate == UpdateInit /\ [][UpdateNext]_vars

\* one backend instance made for a profile at any version, and the
\* operations of its caller
InitLifeAny ==
    /\ be = NoBackend
    /\ \E v \in Versions, r \in BOOLEAN :
          prof = [ver |-> v, data |-> v, other |-> 0, reachable |-> r]
    /\ mig = NoMig
    /\ db = NoDb

LifeInit ==
    /\ InitStoreEmpty /\ InitMaint /\ InitBackup
    /\ committed = {}
    /\ work = committed
    /\ txs = <<>>
    /\ blocks = <<>>
    /\ exc = FALSE
    /\ tlast = [kind |-> "none", depth |-> 0]
    /\ strict = FALSE
    /\ ins = NoInsert
    /\ upd = NoUpdate
    /\ InitLifeAny

LifeNext ==
    \/ Be_Construct
    \/ Be_GetSession
    \/ Be_Transaction
    \/ Be_InTransaction
    \/ \E rows \in {"empty", "invalid", "valid"} : Be_BulkInsert(rows)
    \/ \E rows \in {"empty", "invalid", "valid"} : Be_BulkUpdate(rows)
    \/ \E in_txn \in BOOLEAN : Be_DeleteNodes(in_txn)
    \/ \E exists \in BOOLEAN, overwrite \in BOOLEAN : Be_SetGlobal(exists, overwrite)
    \/ \E exists \in BOOLEAN : Be_GetGlobal(exists)
    \/ Be_Close

SpecLife == LifeInit /\ [][LifeNext]_vars

\* migrations of a profile stored at any version
MigInit ==
    /\ InitStoreEmpty /\ InitMaint /\ InitBackup
    /\ committed = {}
    /\ work = committed
    /\ txs = <<>>
    /\ blocks = <<>>
    /\ exc = FALSE
    /\ tlast = [kind |-> "none", depth |-> 0]
    /\ strict = FALSE
    /\ ins = NoInsert
    /\ upd = NoUpdate
    /\ InitLifeAny

MigNext ==
    \/ Mg_Migrate
    \/ \E destination \in Versions : Mg_Up(destination)
    \/ \E destination \in Versions : Mg_Down(destination)
    \/ Mg_StepBegin
    \/ Mg_Transform
    \/ Mg_Stamp
    \/ Mg_StepCommit
    \/ Mg_StepFail
    \/ Mg_Return

SpecMig == MigInit /\ [][MigNext]_vars

(* ------------------------- checked properties -------------------------- *)
\* the stages of _backup and _backup_dos that come before the marker
BeforeMarker == {"maintain", "pg_dump", "db_rsync", "loose", "idx_dump",
                 "idx_rsync", "packs", "rest"}

\* what these stages transfer to the destination
SnapshotArts == {"db.psql", "loose", "packs.idx", "packs", "rest"}

\* positions of a backup call inside _backup
InBackup == {"remote", "tools", "dest", "access", "maintain", "pg_dump",
             "db_rsync", "loose", "idx_dump", "idx_rsync", "packs", "rest",
             "config", "marker"}

\* C1: a folder with a completion marker holds everything the earlier stages
\* transfer; when _backup writes the marker, maintenance, the dump, and every
\* transfer of this run have succeeded, none has failed, and _backup does
\* nothing after it.
C1_MarkerImpliesStages ==
    /\ [](\A f \in Folders : HasMarker(f) => SnapshotArts \subseteq folders[f].arts)
    /\ [][ (bpc = "marker" /\ \E f \in Folders : ~HasMarker(f) /\ HasMarker(f)')
              => /\ BeforeMarker \subseteq bdone
                 /\ bfailed = "none"
                 /\ bpc' \notin InBackup
         ]_vars

\* a backup call has returned True and left a folder with a marker
C1_Witness ==
    /\ bpc = "idle"
    /\ bresult = "true"
    /\ \E f \in Folders : HasMarker(f)

\* the stages the claim lists, which report their failure by returning False
ReturnsFalse == {"remote", "tools", "dest", "access", "pg_dump", "db_rsync",
                 "loose", "idx_rsync", "packs", "rest", "config", "marker"}

\* C2: once a stage of a backup run has failed the call has ended and no
\* further stage runs; for the remote check, the tool lookup, the destination
\* check, the access request, the dump, the transfers and the marker the
\* call has returned False; the failing step adds no completion marker, and
\* the destination of a run that failed after the destination check has none.
C2_FailureEndsRun ==
    /\ [](bfailed # "none" => bpc = "idle")
    /\ [](bfailed \in ReturnsFalse => bresult = "false")
    /\ [][ (bfailed' # bfailed /\ bfailed' \in InBackup)
              => /\ \A f \in Folders : HasMarker(f)' => HasMarker(f)
                 /\ ("access" \in bdone)
                       => "COMPLETED" \notin folders'[bargs.dest].arts
         ]_vars

\* the transfer of the packed files has failed after the loose files were copied
C2_Witness ==
    /\ bfailed = "packs"
    /\ bresult = "false"
    /\ \E f \in Folders : "loose" \in folders[f].arts /\ ~HasMarker(f)

\* C3: a folder handed to the transfers as the hard-link reference of a run
\* carries a completion marker.
C3_LinkDestHasMarker ==
    (/\ bpc \in {"loose", "idx_dump", "idx_rsync", "packs", "rest", "config",
                 "marker"}
     /\ bargs.prev # "none"
     /\ check_path_exists(bargs.prev))
       => HasMarker(bargs.prev)

\* positions of a backup call that holds access to the profile
PastAccess == {"maintain", "pg_dump", "db_rsync", "loose", "idx_dump",
               "idx_rsync", "packs", "rest", "config", "marker", "mv_old",
               "mv_live", "rm_old"}

\* C9: no maintain(full=True) is inside its locked section while a backup is
\* between its access request and its return; a backup that asks for access
\* while the profile is locked returns False there and gets no access.
C9_BackupExcludesFullMaintain ==
    /\ [](\A m \in Maintainers :
            (mpc[m] # "idle" /\ mfull[m]) => bpc \notin PastAccess)
    /\ [][ (bpc = "access" /\ lockHolder # "none" /\ bpc' # "access"
              /\ bresult' # "crashed")
              => /\ bpc' = "idle"
                 /\ bresult' = "false"
                 /\ bfailed' = "access"
                 /\ access' = access
         ]_vars

\* a backup was refused while maintain(full=True) is in its locked section
C9_Witness ==
    /\ bfailed = "access"
    /\ bresult = "false"
    /\ mpc["m1"] \in {"check", "delete", "repo_maintain"}
    /\ mfull["m1"]

\* C4: in a sequence of calls made one after the other, maintain hands to
\* delete_objects only keys that are stored and referenced by no record, and
\* no step removes a key that is stored and referenced.
C4_MaintainDeletesOnlyUnreferenced ==
    [][ /\ (list_objects \cap dbrefs) \subseteq list_objects'
        /\ \A m \in Maintainers :
             (mpc[m] = "delete" /\ mpc'[m] = "repo_maintain" /\ ~mdry[m])
                => /\ unreferenced_objects(m) \subseteq list_objects
                   /\ unreferenced_objects(m) \cap dbrefs = {}
                   /\ list_objects' = list_objects \ unreferenced_objects(m)
      ]_vars

\* a maintain call has just deleted an unreferenced key and kept a referenced one
C4_Witness ==
    /\ mpc["m1"] = "repo_maintain"
    /\ ~mdry["m1"]
    /\ unreferenced_objects("m1") # {}
    /\ dbrefs # {}
    /\ dbrefs \subseteq list_objects

\* C5: while maintain(full=False) runs next to a writer that stores the blob
\* and then commits the record, every key referenced by a committed record
\* is in the object store.
C5_LiveMaintainKeepsReferenced == dbrefs \subseteq list_objects

\* C6: get_unreferenced_keyset(check_consistency=True) raises exactly when a
\* referenced key is not stored, and otherwise returns the stored keys minus
\* the referenced keys; with check_consistency=False it never raises and
\* returns that difference.
C6_UnreferencedKeyset ==
    guk.called =>
       /\ guk.raised <=> (guk.check /\ ~(guk.db \subseteq guk.repo))
       /\ ~guk.raised =>
             \A k \in Keys : k \in guk.value <=> (k \in guk.repo /\ k \notin guk.db)

\* a checked call on a store that misses a referenced key and holds an
\* unreferenced one
C6_Witness ==
    /\ guk.called /\ guk.check /\ guk.raised
    /\ \E k \in Keys : k \in guk.repo /\ k \notin guk.db

\* C7: when a referenced key is missing from the object store, a maintain call
\* changes nothing in the store, never reaches the deletion nor the object
\* store's own maintenance, and ends by raising.
C7_InconsistentMaintainRaises ==
    [][ \A m \in Maintainers :
          (~(dbrefs \subseteq list_objects) /\ mpc'[m] # mpc[m])
             => /\ loose' = loose
                /\ packed' = packed
                /\ mpc'[m] \in {"list_repo", "list_db", "check", "idle"}
                /\ mpc'[m] = "idle" => mout'[m] = "inconsistent"
      ]_vars

\* a maintain call has raised on a store that also holds an unreferenced key
C7_Witness ==
    /\ mpc["m1"] = "idle"
    /\ mout["m1"] = "inconsistent"
    /\ ~(dbrefs \subseteq list_objects)
    /\ list_objects \ dbrefs # {}

\* C8: of two concurrent maintain(full=True) calls at most one is inside the
\* locked section; a call that starts while the other is inside fails with a
\* locked-profile error and changes nothing in the store; every key handed to
\* delete_objects is still stored at that moment and is gone afterwards.
C8_FullMaintainExclusive ==
    /\ [](\A m \in Maintainers, o \in Maintainers :
            (m # o /\ mpc[m] # "idle") => mpc[o] = "idle")
    /\ [][ \A m \in Maintainers :
             /\ (mpc[m] = "idle" /\ mout'[m] # mout[m]
                   /\ \E o \in Maintainers \ {m} : mpc[o] # "idle")
                  => /\ mout'[m] = "locked"
                     /\ mpc'[m] = "idle"
                     /\ loose' = loose
                     /\ packed' = packed
             /\ (mpc[m] = "delete" /\ mpc'[m] = "repo_maintain" /\ ~mdry[m])
                  => /\ unreferenced_objects(m) \subseteq list_objects
                     /\ unreferenced_objects(m) \cap list_objects' = {}
         ]_vars

\* one call is about to delete a key while the other has been refused
C8_Witness ==
    /\ mpc["m1"] = "delete"
    /\ ~mdry["m1"]
    /\ unreferenced_objects("m1") # {}
    /\ mout["m2"] = "locked"

\* C10: when an exception leaves an outermost transaction() block, the rows
\* the session sees and the durable rows are those of the moment the block
\* was entered; when the block ends normally, what the session sees is durable.
C10_OutermostTransaction ==
    [][ (Len(blocks) = 1 /\ blocks' = <<>>)
           => IF tlast'.kind = "raised"
              THEN /\ work' = blocks[1].work
                   /\ committed' = blocks[1].committed
              ELSE /\ committed' = work'
                   /\ work' = work
      ]_vars

\* C11: when an exception leaves an inner transaction() block and is handled
\* in the enclosing block, only the inner block's writes are undone, nothing
\* becomes durable, and the enclosing block still holds its transaction; an
\* enclosing block that holds its transaction commits all its writes when it
\* exits normally.
C11_InnerRollbackOnly ==
    [][ /\ (Len(blocks) = 2 /\ Len(blocks') = 1 /\ tlast'.kind = "raised")
           => /\ work' = blocks[2].work
              /\ committed' = committed
              /\ \E i \in 1..Len(txs') : txs'[i].owner = 1
        /\ (Len(blocks) = 1 /\ blocks' = <<>> /\ tlast'.kind = "normal"
               /\ \E i \in 1..Len(txs) : txs[i].owner = 1)
           => /\ committed' = work'
              /\ work' = work
      ]_vars

\* C12: nothing written inside transaction() blocks becomes durable before
\* the outermost block exits normally, so that an exception leaving the
\* outermost block finds the database as it was when the block was entered.
C12_NestedNotDurable ==
    [][ (blocks # <<>> /\ committed' # committed)
           => (Len(blocks) = 1 /\ blocks' = <<>> /\ tlast'.kind = "normal")
      ]_vars

\* folder f holds a complete snapshot that carries its completion marker
Valid(f) == HasMarker(f) /\ SnapshotArts \subseteq folders[f].arts

\* C13: the folder last-backup, whenever it exists, holds a complete snapshot
\* with its marker and nothing was moved into it; no stage of a run in
\* automatic mode, and no stop of the process, changes last-backup or
\* last-backup-old: the stages write into the live folder only.
C13_LastBackupComplete ==
    /\ [](check_path_exists(final_folder)
            => Valid(final_folder) /\ "moved-in" \notin folders[final_folder].arts)
    /\ [][ (bargs.mode = "auto" /\ bpc \in InBackup)
              => /\ folders'[final_folder] = folders[final_folder]
                 /\ folders'[old_folder] = folders[old_folder]
         ]_vars

\* an automatic run was stopped between its second and third rotation step
C13_Witness ==
    /\ bresult = "crashed"
    /\ Valid(final_folder)
    /\ folders[final_folder].run = 2
    /\ check_path_exists(old_folder)
    /\ ~check_path_exists(live_folder)

\* C14 as stated: a stop of an automatic run that found a last-backup leaves
\* a valid last-backup in place.
C14_CrashKeepsLastBackup ==
    [][ (bargs.mode = "auto" /\ prev_exists /\ bresult' = "crashed")
           => Valid(final_folder)'
      ]_vars

\* C14 amended: a valid last-backup stays valid through every step and every
\* stop, except that the first rotation step renames it to last-backup-old;
\* and whenever last-backup is absent while last-backup-old exists, the
\* latter carries its marker and the live folder holds the complete new
\* snapshot.
C14_CrashKeepsLastOrOld ==
    /\ [][ Valid(final_folder)
              => \/ Valid(final_folder)'
                 \/ /\ bpc = "mv_old"
                    /\ ~check_path_exists(final_folder)'
                    /\ HasMarker(old_folder)'
         ]_vars
    /\ []((~check_path_exists(final_folder) /\ check_path_exists(old_folder))
            => HasMarker(old_folder) /\ Valid(live_folder))

\* an automatic run was stopped between its first and second rotation step
C14_Witness ==
    /\ bresult = "crashed"
    /\ ~check_path_exists(final_folder)
    /\ Valid(old_folder)
    /\ Valid(live_folder)

\* some folder under the backup path holds a complete snapshot
AnySnapshot == \E f \in {final_folder, old_folder, live_folder} : Valid(f)

\* C15: once a complete snapshot exists in last-backup, last-backup-old or
\* the live folder, no step of a backup run, no failed command and no stop
\* of the process leaves the path without one.
C15_SnapshotNeverLost ==
    [][ AnySnapshot => AnySnapshot' ]_vars

\* the second rotation step of a run that found a last-backup has failed
C15_Witness ==
    /\ bfailed = "mv_live"
    /\ bresult = "false"
    /\ ~check_path_exists(final_folder)
    /\ Valid(old_folder)

\* C16: after two or more automatic backup calls in a row that returned
\* True, last-backup exists and holds the complete snapshot of the last
\* call, and neither last-backup-old nor the live folder remains.
C16_TwoRunsRotation ==
    (bpc = "idle" /\ streak >= 2)
       => /\ Valid(final_folder)
          /\ folders[final_folder].run = runs
          /\ ~check_path_exists(old_folder)
          /\ ~check_path_exists(live_folder)

\* two automatic calls have returned True one after the other
C16_Witness ==
    /\ bpc = "idle"
    /\ streak = 2
    /\ bresult = "true"
    /\ folders[final_folder].run = 2

C18_NoExceptionFromBackup ==
    bresult # "raised"

\* the non-key columns of an entity under the names a caller uses
entity_fields(entity_type) ==
    IF entity_type \in renamed_types THEN {"message", "metadata"}
    ELSE {"message"}

\* what the interface asks of a row
row_valid(row, entity_type, allow_defaults) ==
    IF allow_defaults THEN row \subseteq entity_fields(entity_type)
    ELSE row = entity_fields(entity_type)

\* C19: a bulk_insert call that succeeds on a non-empty batch was given only
\* rows whose field names equal the entity's non-key columns (or are among
\* them, with allow_defaults); a call given a row that is not so ends with
\* an integrity error and the table is as before.
C19_BulkInsertValidates ==
    (ins.pc = "returned" /\ ins.input # <<>>)
       => LET ok(i) == row_valid(ins.input[i], ins.entity_type,
                                 ins.allow_defaults)
          IN  /\ ins.outcome = "ok" => \A i \in 1..Len(ins.input) : ok(i)
              /\ (\E i \in 1..Len(ins.input) : ~ok(i))
                    => ins.outcome = "IntegrityError" /\ ins.table = <<>>

\* C20: a bulk_insert call ends normally or with an integrity error, for
\* every entity type; one given a row that lacks a column of the entity
\* (without allow_defaults) or names a field that is not a column ends with
\* an integrity error.
C20_OnlyIntegrityError ==
    ins.pc = "returned"
       => /\ ins.outcome \in {"ok", "IntegrityError"}
          /\ \A i \in 1..Len(ins.input) :
                ( \/ ~(ins.input[i] \subseteq entity_fields(ins.entity_type))
                  \/ /\ ~ins.allow_defaults
                     /\ ins.input[i] # entity_fields(ins.entity_type) )
                => ins.outcome = "IntegrityError"

\* C21: a bulk_insert call that returns gives back one primary key for each
\* input row, the keys differ from one another, and the key at position i is
\* that of the record made from row i; a call with an empty list returns an
\* empty list and leaves the table as it was.
C21_BulkInsertReturnsKeys ==
    (ins.pc = "returned" /\ ins.outcome = "ok")
       => /\ Len(ins.ret) = Len(ins.input)
          /\ \A i, j \in 1..Len(ins.ret) : i # j => ins.ret[i] # ins.ret[j]
          /\ \A i \in 1..Len(ins.ret) :
                \E t \in 1..Len(ins.table) :
                   /\ ins.table[t].id = ins.ret[i]
                   /\ ins.table[t].fields = ins.rows[i]
          /\ ins.input = <<>> => (ins.ret = <<>> /\ ins.table = <<>>)

\* a call has inserted two rows with different fields
C21_Witness ==
    /\ ins.pc = "returned"
    /\ ins.outcome = "ok"
    /\ Len(ins.input) = 2
    /\ ins.input[1] # ins.input[2]
    /\ Len(ins.table) = 2
    /\ ins.ret = <<1, 2>>

\* C22: a bulk_insert or bulk_update call made inside a transaction() block
\* makes nothing durable; when an exception leaves an outermost block whose
\* body last made such a call, the session and the database are as they
\* were when the block was entered; a call made outside any block has its
\* write committed when it returns.
C22_BulkJoinsTransaction ==
    [][ /\ (blocks # <<>> /\ tlast'.kind = "bulk") => committed' = committed
        /\ (Len(blocks) = 1 /\ tlast.kind = "bulk" /\ tlast.depth = 1
               /\ blocks' = <<>> /\ tlast'.kind = "raised")
              => /\ work' = blocks[1].work
                 /\ committed' = blocks[1].committed
        /\ (blocks = <<>> /\ tlast'.kind = "bulk" /\ work' # work)
              => committed' = work'
      ]_vars

\* the columns of an entity, primary key included, under the names a caller
\* uses
entity_columns(entity_type) == entity_fields(entity_type) \cup {"id"}

\* C23: a bulk_update call that succeeds on a non-empty batch was given only
\* rows that contain 'id' and name only columns of the entity; a call given
\* a row that is not so ends with an integrity error and changes no record;
\* a call that succeeds changes, in the record named by each row, the
\* columns the row lists, and nothing else.
C23_BulkUpdateValidates ==
    (upd.pc = "returned" /\ upd.input # <<>>)
       => LET ok(i) == /\ "id" \in upd.input[i]
                       /\ upd.input[i] \subseteq entity_columns(upd.entity_type)
          IN  /\ upd.outcome = "ok" => \A i \in 1..Len(upd.input) : ok(i)
              /\ (\E i \in 1..Len(upd.input) : ~ok(i))
                    => /\ upd.outcome = "IntegrityError"
                       /\ upd.table = NoUpdate.table
              /\ upd.outcome = "ok"
                    => \A k \in RecordIds :
                          upd.table[k] = IF k \in 1..Len(upd.input)
                                         THEN upd.input[k] \ {"id"} ELSE {}

\* C24: a backend instance exists only for a profile that validate_storage
\* accepted (reachable, stored version = head); when the validation refuses,
\* the constructor raises, there is no session factory, and no session was
\* ever handed out.
C24_SessionOnlyWhenValidated ==
    /\ Constructed(be) => be.validated /\ ~validate_storage_raises(prof)
    /\ be.state = "failed" => ~be.factory /\ be.sessions = 0
    /\ be.factory \/ be.sessions > 0 => be.validated

C24_Witness ==
    be.state = "failed" /\ prof.reachable /\ prof.ver # version_head

\* C27: on a closed backend every operation that needs a session ends with
\* the closed-storage error and writes nothing.
C27_ClosedOpsRaise ==
    [][(Constructed(be) /\ is_closed(be) /\ be'.calls = be.calls + 1
            /\ be'.last.op # "close")
          => be'.last.result = "ClosedStorage" /\ be'.writes = be.writes]_vars

\* C28: a close() on a closed backend changes nothing, and no operation on
\* a closed backend makes is_closed false again or hands out a session.
C28_ClosedIsAbsorbing ==
    [][(Constructed(be) /\ is_closed(be))
          => /\ is_closed(be')
             /\ be'.sessions = be.sessions
             /\ be'.state = be.state
             /\ be'.writes = be.writes
             /\ be'.last.op = "close" => be'.last.result = "ok"]_vars

C28_Witness == is_closed(be) /\ be.closes >= 2 /\ be.calls > be.closes

\* the version a call has reached by the steps it committed
applied_version(m) ==
    IF m.dest >= m.from THEN m.from + m.steps ELSE m.from - m.steps

\* C25: the steps of a migration are committed one at a time: the stored
\* data always has the shape of the stored version, the stored version is
\* that of the last committed step of the call, and after a failure it is
\* the pre-migration version when no step was committed.
C25_StepsAreAtomic ==
    /\ prof.data = prof.ver
    /\ mig.pc # "idle" => current_rev(prof) = applied_version(mig)
    /\ mig.pc = "failed" /\ mig.steps = 0 => current_rev(prof) = mig.from

C25_Witness ==
    /\ mig.pc = "failed"
    /\ mig.kind = "migrate"
    /\ mig.steps = 1
    /\ current_rev(prof) = mig.from + 1
    /\ current_rev(prof) # version_head

C29_DryRunChangesNothing ==
    [][\A m \in Maintainers :
         /\ (mpc[m] # "idle" /\ mdry[m] /\ mpc'[m] # mpc[m])
               => /\ loose' = loose
                  /\ packed' = packed
                  /\ dbrefs' = dbrefs
         /\ (mpc[m] = "check" /\ mpc'[m] = "delete" /\ mdry[m]
                /\ mprev.streak > 0)
               => mprev'.keyset = mprev.keyset]_vars

C29_Witness ==
    /\ mprev.streak = 2
    /\ mprev.keyset # {}
    /\ mpc["m1"] = "exit"
    /\ mfull["m1"]
    /\ mdry["m1"]

\* C30: when the deletion of the unreferenced objects fails, maintain goes
\* on to the compaction; when the compaction fails, the deletion stays in
\* effect; the call ends with an outcome for each of the two steps.
C30_StepsIndependent ==
    [][\A m \in Maintainers :
         /\ (mpc[m] = "delete" /\ mout'[m] = "delete_failed")
               => mpc'[m] = "repo_maintain"
         /\ (mpc[m] = "repo_maintain" /\ mout'[m] = "maintain_failed")
               => loose' = loose /\ packed' = packed]_vars

\* the stages of _backup that come after the look-up of the executables
LaterStages ==
    {"dest", "access", "maintain", "pg_dump", "db_rsync", "loose", "idx_dump",
     "idx_rsync", "packs", "rest", "config", "marker"}

\* C31: when pg_dump or rsync is not found, the call returns False at once:
\* no folder is created or changed, no access is requested, maintain has
\* not run and no later stage of this call was done.
C31_MissingToolFailsFast ==
    [][(bpc = "tools" /\ bresult' = "false")
          => /\ bpc' = "idle"
             /\ folders' = folders
             /\ access' = access
             /\ bdone \cap LaterStages = {}
             /\ mpc[BackupProc] = "idle"
             /\ mout[BackupProc] = "none"
             /\ \A f \in Folders : folders[f].exists => folders[f].run < runs]_vars

C31_Witness ==
    /\ bpc = "idle"
    /\ bresult = "false"
    /\ bfailed = "tools"
    /\ runs = 1
    /\ \A f \in Folders : ~folders[f].exists
    /\ BackupProc \notin access

\* C32: a destination that exists and is not an empty folder ends _backup
\* with False, and the folders are as they were.
C32_NonEmptyDestinationRefused ==
    [][(bpc = "dest" /\ check_path_exists(bargs.dest)
            /\ ~check_path_is_empty_folder(bargs.dest)
            /\ bpc' # bpc /\ bresult' # "crashed")
          => /\ bpc' = "idle"
             /\ bresult' = "false"
             /\ folders' = folders]_vars

C32_Witness ==
    /\ bpc = "idle"
    /\ bresult = "false"
    /\ bfailed = "dest"
    /\ folders["X"].exists
    /\ folders["X"].arts # {}
    /\ folders["X"].run < runs

\* the steps of _backup_dos in the order of the claim
DosOrder == <<"loose", "idx_dump", "idx_rsync", "packs", "rest">>

\* C34: _backup_dos copies the loose files, then makes the copy of the pack
\* index and transfers it, then the packed files, then the rest of the
\* container; a step begins only when the step before it has just succeeded,
\* and a folder holds the rest of the container only with all the others.
C34_DosStepsInOrder ==
    /\ [](\A i \in 2..Len(DosOrder) :
            bpc = DosOrder[i]
              => \A j \in 1..(i - 1) : DosOrder[j] \in bdone)
    /\ [](\A f \in Folders :
            "rest" \in folders[f].arts
              => {"loose", "packs.idx", "packs"} \subseteq folders[f].arts)
    /\ [][\A i \in 2..Len(DosOrder) :
            (bpc' = DosOrder[i] /\ bpc # bpc')
              => /\ bpc = DosOrder[i - 1]
                 /\ DosOrder[i - 1] \in bdone'
                 /\ bfailed' = "none"]_vars

C34_Witness ==
    /\ bpc = "config"
    /\ {"loose", "idx_dump", "idx_rsync", "packs", "rest"} \subseteq bdone
    /\ {"loose", "packs.idx", "packs", "rest"} \subseteq folders[bargs.dest].arts

\* C38: a backup call that returned False because the profile is locked has
\* created no folder: every folder that exists was there before the call.
C38_LockedLeavesDestination ==
    (bpc = "idle" /\ bresult = "false" /\ bfailed = "access")
      => \A f \in Folders : folders[f].exists => folders[f].run < runs

\* C39: every folder with a completion marker holds config.json.
C39_MarkerImpliesConfig ==
    \A f \in Folders : HasMarker(f) => "config" \in folders[f].arts

\* C39 amended: the marker is written only after config.json was transferred
\* to the folder, or after the stage was skipped because get_config() raised
\* a configuration error; a failed transfer ends the call with False.
C39_MarkerAfterConfigStage ==
    /\ [][(bpc = "marker" /\ "COMPLETED" \notin folders[bargs.dest].arts
              /\ "COMPLETED" \in folders'[bargs.dest].arts)
            => \/ "config" \in bdone /\ "config" \in folders[bargs.dest].arts
               \/ "config_skipped" \in bdone]_vars
    /\ [](bfailed = "config" => bpc = "idle" /\ bresult = "false")

C39_Witness ==
    /\ bpc = "idle"
    /\ bresult = "true"
    /\ HasMarker("X")
    /\ "config" \notin folders["X"].arts

\* C35: a maintain(full=True) call holds the profile lock at every step from
\* the listing of the repository to its return, a maintain(full=False) call
\* never holds it, a call that has returned or raised holds no lock, and
\* repository.maintain was called with live = not full and the dry_run of
\* the caller.
C35_LockSpansMaintain ==
    \A m \in Maintainers :
       /\ (mpc[m] # "idle" /\ mfull[m]) => lockHolder = m
       /\ (mpc[m] # "idle" /\ ~mfull[m]) => lockHolder # m
       /\ mpc[m] = "idle" => lockHolder # m
       /\ mpc[m] = "exit"
            => mprev.rm = [called |-> TRUE, live |-> ~mfull[m],
                           dry_run |-> mdry[m]]

C35_Witness ==
    /\ mpc["m1"] = "exit"
    /\ mfull["m1"]
    /\ lockHolder = "m1"
    /\ mprev.rm.called
    /\ ~mprev.rm.live
    /\ ~mprev.rm.dry_run


C33_SettingsAreAMap ==
    [][ LET stored == {r \in work : r[1] = tlast'.key}
            stored_after == {r \in work' : r[1] = tlast'.key}
        IN  /\ (tlast' # tlast /\ tlast'.kind = "set") =>
                  IF stored # {} /\ ~tlast'.overwrite
                  THEN tlast'.result = "ValueError" /\ stored_after = stored
                  ELSE /\ tlast'.result = "ok"
                       /\ stored_after = {<<tlast'.key, tlast'.value>>}
            /\ (tlast' # tlast /\ tlast'.kind = "get") =>
                  /\ stored_after = stored
                  /\ IF stored = {}
                     THEN tlast'.result = "KeyError"
                     ELSE /\ tlast'.result = "ok"
                          /\ stored = {<<tlast'.key, tlast'.value>>}
                  /\ (tlast.kind = "set" /\ tlast.result = "ok"
                        /\ tlast.key = tlast'.key) =>
                        (tlast'.result = "ok" /\ tlast'.value = tlast.value)
      ]_vars


\* a failed or interrupted run has left a non-empty live_backup behind
LiveLeftBehind ==
    /\ bpc = "idle"
    /\ bresult \in {"false", "crashed", "raised"}
    /\ folders[live_folder].exists
    /\ folders[live_folder].arts # {}

\* C37: in automatic mode, after a failed or interrupted run that left a
\* non-empty live_backup behind, a later backup() call on the same path, with
\* all tools and stages working, eventually returns True and produces a
\* valid last-backup.
C37_RetryCompletes ==
    LiveLeftBehind ~> (bpc = "idle" /\ bresult = "true" /\ Valid(final_folder))


\* the records of `before` that the migration is to keep
NodeLogs == {l \in db.before : l.objname = "node" /\ l.objpk \in db.nodes}

=============================================================================
